---------------------------- MODULE Spec2Model ----------------------------
(***************************************************************************)
(* Context assembly engine of the chat session manager:                    *)
(*   - getMessagesWithinTokenLimit  (ContextBudgeter, "fit")               *)
(*   - handleContextStrategy        (ContextAssembler, "assemble")         *)
(*   - getMessagesForConversation   (ThreadReconstructor, "reconstruct")   *)
(*   - MultiMessage.messageGroups   (TurnGrouper, "groupTurns")            *)
(*   - getMessagesWithMultiLLMSiblings (SiblingGrouper, "groupSiblings")   *)
(*   - addInstructions, handleTokenCountMap and sendMessage of the client  *)
(* Each component is a state machine over its own variables; a component   *)
(* that is not running under a given specification stays idle.             *)
(***************************************************************************)
EXTENDS Integers, Sequences, FiniteSets, TLC

VARIABLES
  \* ---- getMessagesWithinTokenLimit ----
  f_pc,                     \* position inside getMessagesWithinTokenLimit
  f_args,                   \* the call's arguments: _messages, maxContextTokens, instructions
  messages,                 \* const messages = [..._messages]
  context,                  \* const context = []
  currentTokenCount,        \* let currentTokenCount
  remainingContextTokens,   \* let remainingContextTokens
  poppedLog,                \* history: every message taken by messages.pop()
  f_result,                 \* the returned { context, remainingContextTokens, messagesToRefine }
  \* ---- getMessagesForConversation ----
  r_pc,                     \* position inside getMessagesForConversation
  r_args,                   \* the call's arguments as passed: messages, parentMessageId, summary
  r_messages,               \* the message objects of the caller's array (shared by reference)
  orderedMessages,          \* const orderedMessages = [] (references: indices into r_messages)
  currentMessageId,         \* let currentMessageId
  visitedMessageIds,        \* const visitedMessageIds = new Set()
  r_result,                 \* the returned array
  \* ---- handleContextStrategy ----
  a_pc,                     \* position inside handleContextStrategy
  a_args,                   \* the call's arguments: instructions, orderedMessages, formattedMessages
  a_this,                   \* this.maxContextTokens, this.shouldSummarize, this.previous_summary
  orderedWithInstructions,  \* let orderedWithInstructions
  payload,                  \* let payload
  a_remaining,              \* handleContextStrategy's own remainingContextTokens
  usePrevSummary,           \* const usePrevSummary
  summaryMessage,           \* let summaryMessage (<<>> while undefined)
  summaryTokenCount,        \* let summaryTokenCount
  summarizerLog,            \* history: what each summarizeMessages call did
  a_error,                  \* the Error thrown (<<>> while none)
  a_result,                 \* the returned { payload, tokenCountMap, promptTokens, messages }
  \* ---- MultiMessage.messageGroups ----
  g_pc,                     \* position inside the messageGroups computation
  messagesTree,             \* the messagesTree prop
  sortedMessages,           \* const sortedMessages
  groups,                   \* const groups
  processedIds,             \* const processedIds = new Set()
  g_index,                  \* position of the for...of loop in sortedMessages
  \* ---- getMessagesWithMultiLLMSiblings ----
  s_pc,                     \* position inside getMessagesWithMultiLLMSiblings
  s_filter,                 \* the filter argument: conversationId, user
  s_store,                  \* the Message collection, in createdAt order
  undefinedAsNull,          \* how the store reads `user: undefined` in a query
  mainMessages,             \* const mainMessages
  messagesWithSiblings,     \* const messagesWithSiblings = []
  sharedUserMessageIds,     \* const sharedUserMessageIds
  siblingGroups,            \* const siblingGroups = {}
  s_index,                  \* position of the running forEach
  s_result,                 \* the returned array
  \* ---- addInstructions ----
  ai_pc,                    \* position inside addInstructions
  ai_args,                  \* the call's arguments as passed: messages, instructions, beforeLast
  ai_messages,              \* the caller's messages array (the object the call was given)
  ai_result,                \* the returned array
  \* ---- handleTokenCountMap ----
  h_pc,                     \* position inside handleTokenCountMap
  clientName,               \* this.clientName
  currentMessages,          \* this.currentMessages
  tokenCountMap,            \* the tokenCountMap argument
  h_index,                  \* let i of the for loop (zero-based)
  updateLog,                \* history: every updateMessageInDatabase call, in order
  h_before,                 \* history: this.currentMessages when the call began
  \* ---- sendMessage, one client per concurrent request ----
  clients,                  \* per request: its body and options, the client's fields, its position
  saveCalls                 \* history: every saveMessageToDatabase call

fitVars == <<f_pc, f_args, messages, context, currentTokenCount,
             remainingContextTokens, poppedLog, f_result>>

recVars == <<r_pc, r_args, r_messages, orderedMessages, currentMessageId,
             visitedMessageIds, r_result>>

asmVars == <<a_pc, a_args, a_this, orderedWithInstructions, payload, a_remaining,
             usePrevSummary, summaryMessage, summaryTokenCount, summarizerLog,
             a_error, a_result>>

grpVars == <<g_pc, messagesTree, sortedMessages, groups, processedIds, g_index>>

sibVars == <<s_pc, s_filter, s_store, undefinedAsNull, mainMessages,
             messagesWithSiblings, sharedUserMessageIds, siblingGroups, s_index,
             s_result>>

addVars == <<ai_pc, ai_args, ai_messages, ai_result>>

tokVars == <<h_pc, clientName, currentMessages, tokenCountMap, h_index, updateLog,
             h_before>>

sndVars == <<clients, saveCalls>>

vars == <<fitVars, recVars, asmVars, grpVars, sibVars, addVars, tokVars, sndVars>>

\* What the steps of one component leave alone.
fitFrame == <<recVars, asmVars, grpVars, sibVars, addVars, tokVars, sndVars>>
recFrame == <<fitVars, asmVars, grpVars, sibVars, addVars, tokVars, sndVars>>
asmFrame == <<recVars, grpVars, sibVars, addVars, tokVars, sndVars>>
grpFrame == <<fitVars, recVars, asmVars, sibVars, addVars, tokVars, sndVars>>
sibFrame == <<fitVars, recVars, asmVars, grpVars, addVars, tokVars, sndVars>>
addFrame == <<fitVars, recVars, asmVars, grpVars, sibVars, tokVars, sndVars>>
tokFrame == <<fitVars, recVars, asmVars, grpVars, sibVars, addVars, sndVars>>
sndFrame == <<fitVars, recVars, asmVars, grpVars, sibVars, addVars, tokVars>>

(***************************************************************************)
(* Bounds of the explored inputs.                                          *)
(***************************************************************************)
MaxThread == 3     \* longest thread drawn (fit, assemble)
MaxTok    == 2     \* largest per-message tokenCount drawn
MaxCtx    == 8     \* largest maxContextTokens drawn
MaxInstr  == 2     \* largest instructions tokenCount drawn
MaxMsgs   == 3     \* largest message collection drawn (reconstruct)
MaxSummaryTok == 2 \* largest token count of a generated summary
MaxTree   == 3     \* largest messagesTree drawn (groupTurns)
MaxTime   == 2     \* createdAt values drawn: 1..MaxTime
MaxStore  == 3     \* largest Message collection drawn (groupSiblings)
MaxResp   == 3     \* longest llmResponses list drawn
MaxReq    == 2     \* most concurrent sendMessage requests of one turn

(***************************************************************************)
(* Values.                                                                 *)
(***************************************************************************)
\* The assistant-label priming reserve: let currentTokenCount = 3.
PrimingTokens == 3

\* JavaScript `undefined` where a message record is expected (_messages[0]
\* of an empty array).
Undefined == [messageId |-> "undefined", tokenCount |-> 0, content |-> "undefined",
              summary |-> "", summaryTokenCount |-> 0]

\* A stored thread message.  summary = "" stands for "no summary".
Msg(id, tok) == [messageId |-> id, tokenCount |-> tok, content |-> id,
                 summary |-> "", summaryTokenCount |-> 0]

\* The instructions object { role: 'system', content, tokenCount }; it has
\* no messageId.
InstructionsMsg(tok) == [messageId |-> "", tokenCount |-> tok, content |-> "instructions",
                         summary |-> "", summaryTokenCount |-> 0]

IdOf(i) == "m" \o ToString(i)

\* The scenario of the design: five messages of 10 tokens, maxTokens 25.
ScenarioThread == [i \in 1..5 |-> Msg(IdOf(i), 10)]
ScenarioMaxTokens == 25

RECURSIVE SumTokens(_)
SumTokens(s) == IF s = <<>> THEN 0 ELSE Head(s).tokenCount + SumTokens(Tail(s))

Reverse(s) == [i \in 1..Len(s) |-> s[Len(s) + 1 - i]]
Front(s) == SubSeq(s, 1, Len(s) - 1)
Last(s) == s[Len(s)]
Suffix(s, k) == SubSeq(s, Len(s) - k + 1, Len(s))     \* the k newest
Prefix(s, k) == SubSeq(s, 1, k)                       \* the k oldest

\* JavaScript NaN and an undefined number, as values no count can take.
NaN == -1000001
UndefinedNumber == -1000002

\* a - b in JavaScript: NaN as soon as an operand is NaN or undefined.
JsMinus(a, b) ==
  IF a \in {NaN, UndefinedNumber} \/ b \in {NaN, UndefinedNumber} THEN NaN ELSE a - b

\* The formatted form of a thread message, as the caller's
\* formattedMessages holds it.
Formatted(m) == [role |-> "user", content |-> "formatted " \o m.messageId]

\* ({ tokenCount, ..._instructions } = instructions)
WithoutTokenCount(instructions) ==
  IF instructions = <<>> THEN <<>>
  ELSE <<[role |-> "system", content |-> instructions[1].content]>>

(***************************************************************************)
(* The state of a component before it is called (and for good when the     *)
(* specification at hand does not run it).                                 *)
(***************************************************************************)
NoResult == [context |-> <<>>, remainingContextTokens |-> 0, messagesToRefine |-> <<>>]

NoAsmResult ==
  [payload |-> <<>>, tokenCountMap |-> [counts |-> <<>>, summaryMessage |-> <<>>],
   promptTokens |-> 0, messages |-> <<>>]

IdleFit ==
  /\ f_pc = "idle"
  /\ f_args = [messages |-> <<>>, maxContextTokens |-> 0, instructions |-> <<>>]
  /\ messages = <<>>
  /\ context = <<>>
  /\ currentTokenCount = 0
  /\ remainingContextTokens = 0
  /\ poppedLog = <<>>
  /\ f_result = NoResult

IdleRec ==
  /\ r_pc = "idle"
  /\ r_args = [messages |-> <<>>, parentMessageId |-> "", summary |-> FALSE]
  /\ r_messages = <<>>
  /\ orderedMessages = <<>>
  /\ currentMessageId = ""
  /\ visitedMessageIds = {}
  /\ r_result = <<>>

IdleAsm ==
  /\ a_pc = "idle"
  /\ a_args = [instructions |-> <<>>, orderedMessages |-> <<>>, formattedMessages |-> <<>>]
  /\ a_this = [maxContextTokens |-> 0, shouldSummarize |-> FALSE, previous_summary |-> <<>>]
  /\ orderedWithInstructions = <<>>
  /\ payload = <<>>
  /\ a_remaining = 0
  /\ usePrevSummary = FALSE
  /\ summaryMessage = <<>>
  /\ summaryTokenCount = UndefinedNumber
  /\ summarizerLog = <<>>
  /\ a_error = <<>>
  /\ a_result = NoAsmResult

IdleGrp ==
  /\ g_pc = "idle"
  /\ messagesTree = <<>>
  /\ sortedMessages = <<>>
  /\ groups = <<>>
  /\ processedIds = {}
  /\ g_index = 0

IdleSib ==
  /\ s_pc = "idle"
  /\ s_filter = [conversationId |-> "", user |-> <<>>]
  /\ s_store = <<>>
  /\ undefinedAsNull = FALSE
  /\ mainMessages = <<>>
  /\ messagesWithSiblings = <<>>
  /\ sharedUserMessageIds = <<>>
  /\ siblingGroups = <<>>
  /\ s_index = 0
  /\ s_result = <<>>

IdleAdd ==
  /\ ai_pc = "idle"
  /\ ai_args = [messages |-> <<>>, instructions |-> <<>>, beforeLast |-> FALSE]
  /\ ai_messages = <<>>
  /\ ai_result = <<>>

IdleTok ==
  /\ h_pc = "idle"
  /\ clientName = ""
  /\ currentMessages = <<>>
  /\ tokenCountMap = [counts |-> <<>>, summaryMessage |-> <<>>]
  /\ h_index = 0
  /\ updateLog = <<>>
  /\ h_before = <<>>

IdleSnd ==
  /\ clients = <<>>
  /\ saveCalls = {}

(***************************************************************************)
(* getMessagesWithinTokenLimit, BaseClient.js 372-414                      *)
(***************************************************************************)
\* instructions?.tokenCount ?? 0; an absent instructions object is <<>>.
InstructionsTokenCount(instructions) ==
  IF instructions = <<>> THEN 0 ELSE instructions[1].tokenCount

\* Variant: the loop goes on while the budget is not exceeded (<=).
LoopCondInclusive(st, remaining) ==
  Len(st.messages) > 0 /\ st.currentTokenCount <= remaining

\* while (messages.length > 0 && currentTokenCount < remainingContextTokens)
LoopCond(st, remaining) ==
  Len(st.messages) > 0 /\ st.currentTokenCount < remaining

\* Variant: the loop has no anchor break.
AnchorBreakNever(st, instructions) == FALSE

\* if (messages.length === 1 && instructions) break;
AnchorBreak(st, instructions) ==
  Len(st.messages) = 1 /\ instructions # <<>>

\* Variant: the test forgets the tokens already accumulated.
AcceptsNoAccumulation(cur, tokenCount, remaining) == tokenCount <= remaining

\* if (poppedMessage && currentTokenCount + tokenCount <= remainingContextTokens)
Accepts(cur, tokenCount, remaining) == cur + tokenCount <= remaining

\* One iteration of the loop body.  brk records a `break`; popped records
\* the message taken by messages.pop() in this iteration, if any.
LoopBody(st, remaining, instructions) ==
  IF AnchorBreak(st, instructions)
  THEN [st EXCEPT !.brk = TRUE, !.popped = <<>>]
  ELSE LET poppedMessage == Last(st.messages)
           tokenCount == poppedMessage.tokenCount
       IN IF Accepts(st.currentTokenCount, tokenCount, remaining)
          THEN [messages |-> Front(st.messages),
                context |-> Append(st.context, poppedMessage),
                currentTokenCount |-> st.currentTokenCount + tokenCount,
                brk |-> FALSE,
                popped |-> <<poppedMessage>>]
          ELSE \* messages.push(poppedMessage); break;
               [st EXCEPT !.brk = TRUE, !.popped = <<poppedMessage>>]

\* if (instructions) { context.push(_messages[0]); messages.shift(); }
AnchorContext(ctx, _messages, instructions) ==
  IF instructions = <<>> THEN ctx
  ELSE Append(ctx, IF _messages = <<>> THEN Undefined ELSE _messages[1])

\* Variant: the anchored element stays in the working array.
AnchorShiftMissing(msgs, instructions) == msgs

\* if (instructions) { ...; messages.shift(); }
AnchorShift(msgs, instructions) ==
  IF instructions = <<>> \/ msgs = <<>> THEN msgs ELSE Tail(msgs)

\* Variant: messages is the caller's array itself, not a copy.
CallerArrayShared(_messages, working) == working

\* const messages = [..._messages]: the pops, the push and the shift act on
\* a copy, so the caller's array is what it was whatever the working array
\* has become.
CallerArray(_messages, working) == _messages

FitEntry ==
  /\ f_pc = "entry"
  /\ currentTokenCount' = PrimingTokens
  /\ remainingContextTokens' =
       f_args.maxContextTokens - InstructionsTokenCount(f_args.instructions)
  /\ messages' = f_args.messages
  /\ context' = <<>>
  /\ f_pc' = IF PrimingTokens < remainingContextTokens' THEN "loop" ELSE "post"
  /\ UNCHANGED <<f_args, poppedLog, f_result, fitFrame>>

FitLoop ==
  /\ f_pc = "loop"
  /\ LET st == [messages |-> messages, context |-> context,
                currentTokenCount |-> currentTokenCount,
                brk |-> FALSE, popped |-> <<>>]
     IN IF ~LoopCond(st, remainingContextTokens)
        THEN /\ f_pc' = "post"
             /\ UNCHANGED <<messages, context, currentTokenCount, poppedLog>>
        ELSE LET nx == LoopBody(st, remainingContextTokens, f_args.instructions)
             IN /\ messages' = nx.messages
                /\ context' = nx.context
                /\ currentTokenCount' = nx.currentTokenCount
                /\ poppedLog' = poppedLog \o nx.popped
                /\ f_pc' = IF nx.brk THEN "post" ELSE "loop"
  /\ f_args' = [f_args EXCEPT !.messages = CallerArray(@, messages')]
  /\ UNCHANGED <<remainingContextTokens, f_result, fitFrame>>

FitReturn ==
  /\ f_pc = "post"
  /\ context' = AnchorContext(context, f_args.messages, f_args.instructions)
  /\ messages' = AnchorShift(messages, f_args.instructions)
  /\ remainingContextTokens' = remainingContextTokens - currentTokenCount
  /\ f_result' = [context |-> Reverse(context'),
                  remainingContextTokens |-> remainingContextTokens',
                  messagesToRefine |-> messages']
  /\ f_pc' = "done"
  /\ f_args' = [f_args EXCEPT !.messages = CallerArray(@, messages')]
  /\ UNCHANGED <<currentTokenCount, poppedLog, fitFrame>>

FitStart(thread, max, instructions) ==
  /\ f_pc = "entry"
  /\ f_args = [messages |-> thread, maxContextTokens |-> max, instructions |-> instructions]
  /\ messages = <<>>
  /\ context = <<>>
  /\ currentTokenCount = 0
  /\ remainingContextTokens = 0
  /\ poppedLog = <<>>
  /\ f_result = NoResult

ThreadOf(n, toks) == [i \in 1..n |-> Msg(IdOf(i), toks[i])]

InstructionsChoices == {<<>>} \cup { <<InstructionsMsg(k)>> : k \in 0..MaxInstr }

InitFit ==
  /\ IdleAdd
  /\ IdleTok
  /\ IdleSnd
  /\ IdleRec
  /\ IdleAsm
  /\ IdleGrp
  /\ IdleSib
  /\ \/ \E n \in 0..MaxThread : \E toks \in [1..n -> 0..MaxTok] :
          \E max \in 0..MaxCtx, instructions \in InstructionsChoices :
            FitStart(ThreadOf(n, toks), max, instructions)
     \/ FitStart(ScenarioThread, ScenarioMaxTokens, <<>>)

NextFit == FitEntry \/ FitLoop \/ FitReturn

SpecFit == InitFit /\ [][NextFit]_vars

(***************************************************************************)
(* getMessagesForConversation, BaseClient.js 996-1051                      *)
(***************************************************************************)
\* Constants.NO_PARENT, the root sentinel.
NO_PARENT == "00000000-0000-0000-0000-000000000000"

\* null / undefined / absent id: falsy in `while (currentMessageId)`.
NoId == ""

\* An id that no message of the collection has (a dangling reference).
MissingId == "missing"

\* A stored message as reconstruct reads it.  summary = "" stands for "no
\* summary"; summaryTokenCount = 0 is falsy like an absent one.
StoredMsg(i, parent, sum, sumTok) ==
  [messageId |-> IdOf(i), parentMessageId |-> parent, createdAt |-> i,
   role |-> "user", text |-> IdOf(i), tokenCount |-> 1,
   summary |-> sum, summaryTokenCount |-> sumTok]

\* A parent pointer: a message of the collection (itself included), the
\* root sentinel, or an id no message has.
ParentChoices(n) == { IdOf(i) : i \in 1..n } \cup {NO_PARENT, MissingId}

\* The messages that carry a summary (any of the two oldest: the parent
\* pointers place them anywhere on the walk) and the messages that have a
\* summaryTokenCount: none, the carriers, or the oldest message alone (with
\* or without a summary of its own).
SummaryChoices(n) ==
  UNION { { <<c, t>> : t \in {{}, c, {1} \cap (1..n)} } :
          c \in SUBSET ({1, 2} \cap (1..n)) }

\* A collection of n messages m1..mn, stored in creation order, with the
\* given parent pointers (well-formed, cyclic or dangling) and summaries.
Collection(n, par, sm) ==
  [i \in 1..n |->
     StoredMsg(i, par[i], IF i \in sm[1] THEN "summary" ELSE "",
               IF i \in sm[2] THEN 2 ELSE 0)]

\* The collection with a duplicate record: the newest record has the id of
\* the oldest one.
WithDuplicate(coll) == [coll EXCEPT ![Len(coll)].messageId = coll[1].messageId]

\* Variant: an id that no message has finds the first message.
FindMessageOrFirst(msgs, id) ==
  IF \E i \in 1..Len(msgs) : msgs[i].messageId = id
  THEN CHOOSE i \in 1..Len(msgs) :
         /\ msgs[i].messageId = id
         /\ \A j \in 1..(i - 1) : msgs[j].messageId # id
  ELSE 1

\* messages.find((msg) => (msg.messageId ?? msg.id) === currentMessageId):
\* the index of the first match, 0 when there is none.
FindMessage(msgs, id) ==
  IF \E i \in 1..Len(msgs) : msgs[i].messageId = id
  THEN CHOOSE i \in 1..Len(msgs) :
         /\ msgs[i].messageId = id
         /\ \A j \in 1..(i - 1) : msgs[j].messageId # id
  ELSE 0

\* Variant: the message found is pushed twice.
CollectedTwice(ordered, i) == Append(Append(ordered, i), i)

\* orderedMessages.push(message)
Collected(ordered, i) == Append(ordered, i)

\* visitedMessageIds.add(currentMessageId)
Visited(visited, id) == visited \cup {id}

\* Variant: no cycle guard.
CycleGuardNever(visited, id) == FALSE

\* if (visitedMessageIds.has(currentMessageId)) break;
CycleGuard(visited, id) == id \in visited

\* Variant: the rewrite does not depend on the summary option.
SummaryRewriteAlways(message, summary) ==
  LET m1 == IF message.summary # ""
            THEN [message EXCEPT !.role = "system", !.text = message.summary]
            ELSE message
  IN IF message.summaryTokenCount # 0
     THEN [m1 EXCEPT !.tokenCount = message.summaryTokenCount]
     ELSE m1

\* The in-place rewrite of a message that carries a summary (1025-1032).
SummaryRewrite(message, summary) ==
  LET m1 == IF summary /\ message.summary # ""
            THEN [message EXCEPT !.role = "system", !.text = message.summary]
            ELSE message
  IN IF summary /\ message.summaryTokenCount # 0
     THEN [m1 EXCEPT !.tokenCount = message.summaryTokenCount]
     ELSE m1

\* currentMessageId = message.parentMessageId === Constants.NO_PARENT
\*                      ? null : message.parentMessageId;
NextCursor(message) ==
  IF message.parentMessageId = NO_PARENT THEN NoId ELSE message.parentMessageId

\* Variant: the accumulator is returned newest-first.
OrderedAsWalked(ordered) == ordered

\* orderedMessages.reverse()
OrderedOldestFirst(ordered) == Reverse(ordered)

\* Longest walk the model follows; the walk of the program is bounded by
\* the number of messages, so this cap is never reached.
MaxWalk == MaxMsgs + 2

\* if (!messages || messages.length === 0) return [];
RecEntry ==
  /\ r_pc = "entry"
  /\ r_messages' = r_args.messages
  /\ orderedMessages' = <<>>
  /\ currentMessageId' = r_args.parentMessageId
  /\ visitedMessageIds' = {}
  /\ IF Len(r_args.messages) = 0
     THEN r_pc' = "done" /\ r_result' = <<>>
     ELSE r_pc' = "loop" /\ UNCHANGED r_result
  /\ UNCHANGED <<r_args, recFrame>>

\* One test of the while condition and one iteration of its body.
RecStep ==
  /\ r_pc = "loop"
  /\ Len(orderedMessages) < MaxWalk
  /\ IF currentMessageId = NoId \/ CycleGuard(visitedMessageIds, currentMessageId)
     THEN /\ r_pc' = "finish"
          /\ UNCHANGED <<r_messages, orderedMessages, currentMessageId, visitedMessageIds>>
     ELSE LET i == FindMessage(r_messages, currentMessageId)
          IN /\ visitedMessageIds' = Visited(visitedMessageIds, currentMessageId)
             /\ IF i = 0
                THEN /\ r_pc' = "finish"
                     /\ UNCHANGED <<r_messages, orderedMessages, currentMessageId>>
                ELSE LET message == SummaryRewrite(r_messages[i], r_args.summary)
                     IN /\ r_messages' = [r_messages EXCEPT ![i] = message]
                        /\ orderedMessages' = Collected(orderedMessages, i)
                        /\ IF r_args.summary /\ message.summary # ""
                           THEN r_pc' = "finish" /\ UNCHANGED currentMessageId
                           ELSE /\ r_pc' = "loop"
                                /\ currentMessageId' = NextCursor(message)
  /\ UNCHANGED <<r_args, r_result, recFrame>>

\* orderedMessages.reverse(); return orderedMessages;  (mapMethod = null)
RecReturn ==
  /\ r_pc = "finish"
  /\ orderedMessages' = OrderedOldestFirst(orderedMessages)
  /\ r_result' = [k \in 1..Len(orderedMessages') |-> r_messages[orderedMessages'[k]]]
  /\ r_pc' = "done"
  /\ UNCHANGED <<r_args, r_messages, currentMessageId, visitedMessageIds, recFrame>>

InitRec ==
  /\ IdleAdd
  /\ IdleTok
  /\ IdleSnd
  /\ IdleFit
  /\ IdleAsm
  /\ IdleGrp
  /\ IdleSib
  /\ r_pc = "entry"
  /\ \E n \in 0..MaxMsgs : \E par \in [1..n -> ParentChoices(n)], sm \in SummaryChoices(n) :
       \E start \in { IdOf(i) : i \in 1..MaxMsgs } \cup {NoId, MissingId}, stop \in BOOLEAN :
         \/ r_args = [messages |-> Collection(n, par, sm),
                      parentMessageId |-> start, summary |-> stop]
         \/ /\ n >= 2
            /\ sm = <<{}, {}>>
            /\ r_args = [messages |-> WithDuplicate(Collection(n, par, sm)),
                         parentMessageId |-> start, summary |-> stop]
  /\ r_messages = <<>>
  /\ orderedMessages = <<>>
  /\ currentMessageId = NoId
  /\ visitedMessageIds = {}
  /\ r_result = <<>>

NextRec == RecEntry \/ RecStep \/ RecReturn

SpecRec == InitRec /\ [][NextRec]_vars

\* The loop is synchronous code: it runs to completion once called.
SpecRecFair == SpecRec /\ WF_vars(NextRec)

(***************************************************************************)
(* addInstructions, BaseClient.js 283-305                                  *)
(***************************************************************************)
\* The object {}: it has no key, every property of it reads undefined.
EmptyObject == [messageId |-> "", tokenCount |-> UndefinedNumber, content |-> "undefined",
                summary |-> "", summaryTokenCount |-> 0]

\* if (!instructions || Object.keys(instructions).length === 0)
NoInstructions(instructions) ==
  instructions = <<>> \/ instructions[1] = EmptyObject

\* Variant: the instructions are put behind the messages.
AddInstructionsAtEnd(msgs, instructions, beforeLast) ==
  IF NoInstructions(instructions) THEN msgs ELSE msgs \o instructions

AddInstructions(msgs, instructions, beforeLast) ==
  IF NoInstructions(instructions) THEN msgs
  ELSE IF ~beforeLast THEN instructions \o msgs
  ELSE (IF Len(msgs) > 1 THEN Front(msgs) ELSE <<>>)
         \o instructions
         \o (IF Len(msgs) > 0 THEN <<Last(msgs)>> ELSE <<>>)

\* The whole call.  The spread and the slice read the messages array and
\* every push goes to the new payload array, so the caller's array is left
\* as it was.
AddCall ==
  /\ ai_pc = "entry"
  /\ ai_result' = AddInstructions(ai_messages, ai_args.instructions, ai_args.beforeLast)
  /\ ai_messages' = ai_messages
  /\ ai_pc' = "done"
  /\ UNCHANGED <<ai_args, addFrame>>

\* Calls with every thread of 0..MaxThread messages, with instructions that
\* are absent, the empty object or an instructions object, in both modes.
InitAdd ==
  /\ IdleFit
  /\ IdleRec
  /\ IdleAsm
  /\ IdleGrp
  /\ IdleSib
  /\ IdleTok
  /\ IdleSnd
  /\ ai_pc = "entry"
  /\ \E n \in 0..MaxThread : \E toks \in [1..n -> 0..MaxTok] :
       \E instructions \in InstructionsChoices \cup {<<EmptyObject>>},
          beforeLast \in BOOLEAN :
         /\ ai_args = [messages |-> ThreadOf(n, toks), instructions |-> instructions,
                       beforeLast |-> beforeLast]
         /\ ai_messages = ThreadOf(n, toks)
  /\ ai_result = <<>>

NextAdd == AddCall

SpecAdd == InitAdd /\ [][NextAdd]_vars

(***************************************************************************)
(* handleTokenCountMap, BaseClient.js 307-344                              *)
(***************************************************************************)
\* EModelEndpoint.agents and a client of another endpoint.
AgentsClient == "agents"
OtherClient == "openAI"

\* A message of this.currentMessages; tokenCount 0 stands for a message
\* without a token count (both are falsy).
CurrentMsg(i, tok) == [messageId |-> IdOf(i), tokenCount |-> tok]

\* A count is truthy: a number other than 0 (and not NaN or undefined).
Truthy(n) == n \notin {0, NaN, UndefinedNumber}

\* messageId === tokenCountMap.summaryMessage?.messageId
TargetedBySummary(messageId, map) ==
  map.summaryMessage # <<>> /\ map.summaryMessage[1].messageId = messageId

\* const update = {}; with summary and summaryTokenCount set from the
\* map's summaryMessage entry when it targets the message (325-330).
\* summary = "" and summaryTokenCount = UndefinedNumber are absent keys.
SummaryProps(messageId, map) ==
  IF TargetedBySummary(messageId, map)
  THEN [summary |-> map.summaryMessage[1].content,
        summaryTokenCount |-> map.summaryMessage[1].tokenCount]
  ELSE [summary |-> "", summaryTokenCount |-> UndefinedNumber]

\* Variant: a message that has a token count is not skipped.
AlreadyCountedIgnored(message, update) == FALSE

\* if (message.tokenCount && !update.summaryTokenCount) continue;
AlreadyCounted(message, update) ==
  Truthy(message.tokenCount) /\ ~Truthy(update.summaryTokenCount)

\* tokenCountMap[messageId]: 0 when the map has no entry for the id.
CountFor(map, messageId) ==
  IF \E i \in DOMAIN map.counts : map.counts[i].messageId = messageId
  THEN LET i == CHOOSE j \in DOMAIN map.counts : map.counts[j].messageId = messageId
       IN map.counts[i].tokenCount
  ELSE 0

\* Lines 308-313 and the initialisation of the loop.
TokEntry ==
  /\ h_pc = "entry"
  /\ h_index' = 0
  /\ h_pc' = IF clientName = AgentsClient \/ Len(currentMessages) = 0
             THEN "done" ELSE "loop"
  /\ UNCHANGED <<clientName, currentMessages, tokenCountMap, updateLog, h_before, tokFrame>>

\* One test of the loop condition and one iteration of the body (315-343);
\* the iteration ends at the await of updateMessageInDatabase, when it
\* reaches it.
TokStep ==
  /\ h_pc = "loop"
  /\ IF h_index >= Len(currentMessages) \/ h_index = Len(currentMessages) - 1
     THEN /\ h_pc' = "done"
          /\ UNCHANGED <<currentMessages, updateLog, h_index>>
     ELSE LET message == currentMessages[h_index + 1]
              messageId == message.messageId
              update == SummaryProps(messageId, tokenCountMap)
              tokenCount == CountFor(tokenCountMap, messageId)
          IN /\ h_pc' = "loop"
             /\ h_index' = h_index + 1
             /\ IF AlreadyCounted(message, update) \/ ~Truthy(tokenCount)
                THEN UNCHANGED <<currentMessages, updateLog>>
                ELSE /\ currentMessages' =
                          [currentMessages EXCEPT ![h_index + 1].tokenCount = tokenCount]
                     /\ updateLog' =
                          Append(updateLog,
                                 [messageId |-> messageId,
                                  summary |-> update.summary,
                                  summaryTokenCount |-> update.summaryTokenCount,
                                  tokenCount |-> tokenCount])
  /\ UNCHANGED <<clientName, tokenCountMap, h_before, tokFrame>>

\* The summaryMessage entries drawn: none, or one that targets a message
\* of currentMessages or another message, with or without a token count.
SummaryEntries(n) ==
  {<<>>} \cup
  { <<[messageId |-> id, content |-> "new summary", tokenCount |-> t]>> :
      id \in { IdOf(i) : i \in 1..n } \cup {"other"}, t \in {0, MaxSummaryTok} }

\* Calls with 0..MaxThread current messages, each with or without a token
\* count, and a map that has a count or none for each of them.
InitTok ==
  /\ IdleFit
  /\ IdleRec
  /\ IdleAsm
  /\ IdleGrp
  /\ IdleSib
  /\ IdleAdd
  /\ IdleSnd
  /\ h_pc = "entry"
  /\ \E n \in 0..MaxThread :
       \E toks \in [1..n -> {0, 1}], counts \in [1..n -> {0, MaxTok}],
          entry \in SummaryEntries(n), client \in {AgentsClient, OtherClient} :
         /\ clientName = client
         /\ currentMessages = [i \in 1..n |-> CurrentMsg(i, toks[i])]
         /\ tokenCountMap =
              [counts |-> [i \in 1..n |-> [messageId |-> IdOf(i), tokenCount |-> counts[i]]],
               summaryMessage |-> entry]
         /\ h_before = currentMessages
  /\ h_index = 0
  /\ updateLog = <<>>

NextTok == TokEntry \/ TokStep

SpecTok == InitTok /\ [][NextTok]_vars

(***************************************************************************)
(* sendMessage, BaseClient.js 564-773, with processOverideIds (153-172),   *)
(* setMessageOptions (174-216), handleStartMethods (229-271) and           *)
(* saveMessageToDatabase (897-963).  Every request has a client of its     *)
(* own; the requests of a turn run concurrently and interleave at their    *)
(* awaits.  An id is a sequence of tokens, so that it can be split.        *)
(***************************************************************************)
\* Constants.COMMON_DIVIDER
COMMON_DIVIDER == ":"

\* The base id shared by the requests of a multi-LLM turn.
BaseUserMessageId == <<"u1">>

\* `${base}${COMMON_DIVIDER}${index}`
OverrideId(base, index) == base \o <<COMMON_DIVIDER>> \o <<index>>

\* str.split(divider)
RECURSIVE Split(_, _)
Split(str, divider) ==
  IF \E k \in 1..Len(str) : str[k] = divider
  THEN LET k == CHOOSE i \in 1..Len(str) :
                  str[i] = divider /\ \A j \in 1..(i - 1) : str[j] # divider
       IN <<SubSeq(str, 1, k - 1)>> \o Split(SubSeq(str, k + 1, Len(str)), divider)
  ELSE <<str>>

\* const [userMessageId, index] = ...: an element the array does not have
\* reads undefined (<<>> here, as does an absent id).
ElementAt(parts, k) == IF k <= Len(parts) THEN parts[k] ELSE <<>>

\* Variant: no index makes the client skip the save.
SkipsUserSaveNever(index) == FALSE

\* if (index !== '0') this.skipSaveUserMessage = true;
SkipsUserSave(index) == index # <<"0">>

\* processOverideIds, for overrideUserMessageId: the skip flag it sets (it
\* never clears it) and the id it returns.
ProcessOverideIds(overrideUserMessageId, skipSaveUserMessage) ==
  IF overrideUserMessageId # <<>>
  THEN LET parts == Split(overrideUserMessageId, COMMON_DIVIDER)
       IN [skipSaveUserMessage |->
             skipSaveUserMessage \/ SkipsUserSave(ElementAt(parts, 2)),
           overrideUserMessageId |-> ElementAt(parts, 1)]
  ELSE [skipSaveUserMessage |-> skipSaveUserMessage,
        overrideUserMessageId |-> <<>>]

\* crypto.randomUUID(): an id no other request has.
RandomUUID(kind, r) == <<kind \o ToString(r)>>

\* The client and the request right after the constructor (31-49).
NewClient(override, isEdited) ==
  [body |-> [overrideUserMessageId |-> override],
   isEdited |-> isEdited,
   pc |-> "start",
   skipSaveUserMessage |-> FALSE,
   savedMessageIds |-> {},
   userMessageId |-> <<>>,
   responseMessageId |-> <<>>,
   userMessagePromise |-> "undefined",
   completion |-> "pending"]

\* The saveMessage call that saveMessageToDatabase makes for a message of
\* client r (902-921).
SaveCall(r, messageId, isCreatedByUser) ==
  LET overrideUserMessageId == clients[r].body.overrideUserMessageId
  IN [client |-> r,
      messageId |-> messageId,
      isCreatedByUser |-> isCreatedByUser,
      sharedUserMessageId |->
        IF overrideUserMessageId # <<>>
        THEN ElementAt(Split(overrideUserMessageId, COMMON_DIVIDER), 1)
        ELSE <<>>]

\* sendMessage is called: handleStartMethods and setMessageOptions up to
\* the await of loadHistory (179-191).
SndStart(r) ==
  /\ clients[r].pc = "start"
  /\ LET c == clients[r]
         ids == ProcessOverideIds(c.body.overrideUserMessageId, c.skipSaveUserMessage)
     IN clients' =
          [clients EXCEPT ![r] =
             [c EXCEPT !.skipSaveUserMessage = ids.skipSaveUserMessage,
                       !.userMessageId = IF ids.overrideUserMessageId # <<>>
                                         THEN ids.overrideUserMessageId
                                         ELSE RandomUUID("user", r),
                       !.responseMessageId = RandomUUID("response", r),
                       !.pc = "history"]]
  /\ UNCHANGED <<saveCalls, sndFrame>>

\* The history is loaded: the user message is created, or taken from the
\* history when the request is an edit (240-247), and buildMessages is
\* awaited (614-625).
SndBuild(r) ==
  /\ clients[r].pc = "history"
  /\ clients' =
       [clients EXCEPT ![r].userMessageId =
                         IF clients[r].isEdited THEN <<"edited">> ELSE @,
                       ![r].pc = "building"]
  /\ UNCHANGED <<saveCalls, sndFrame>>

\* buildMessages has returned: lines 627-667, up to the await of
\* sendCompletion.
SndSaveUser(r) ==
  /\ clients[r].pc = "building"
  /\ LET c == clients[r]
     IN IF ~c.isEdited /\ ~c.skipSaveUserMessage
        THEN /\ saveCalls' = saveCalls \cup {SaveCall(r, c.userMessageId, TRUE)}
             /\ clients' =
                  [clients EXCEPT ![r] =
                     [c EXCEPT !.userMessagePromise = "pending",
                               !.savedMessageIds = @ \cup {c.userMessageId},
                               !.pc = "completing"]]
        ELSE /\ clients' = [clients EXCEPT ![r].pc = "completing"]
             /\ UNCHANGED saveCalls
  /\ UNCHANGED sndFrame

\* Lines 765-772: the save of the response message is started.
ResponseSaved(r, c) ==
  /\ saveCalls' = saveCalls \cup {SaveCall(r, c.responseMessageId, FALSE)}
  /\ clients' =
       [clients EXCEPT ![r] =
          [c EXCEPT !.savedMessageIds = @ \cup {c.responseMessageId},
                    !.pc = "done"]]

\* sendCompletion has returned: lines 668-751, up to the await of
\* userMessagePromise when there is one, else up to the return.
SndCompletion(r) ==
  /\ clients[r].pc = "completing"
  /\ LET c == [clients[r] EXCEPT !.completion = "returned"]
     IN IF c.userMessagePromise # "undefined"
        THEN /\ clients' = [clients EXCEPT ![r] = [c EXCEPT !.pc = "awaitingUserSave"]]
             /\ UNCHANGED saveCalls
        ELSE ResponseSaved(r, c)
  /\ UNCHANGED sndFrame

\* sendCompletion has thrown: sendMessage rejects.
SndCompletionThrows(r) ==
  /\ clients[r].pc = "completing"
  /\ clients' = [clients EXCEPT ![r].completion = "threw", ![r].pc = "failed"]
  /\ UNCHANGED <<saveCalls, sndFrame>>

\* Variant: the user message promise is not awaited.
SettledOrNot(promise) == TRUE

\* await userMessagePromise goes on once the promise is settled.
Settled(promise) == promise # "pending"

\* The await of userMessagePromise is over (749-772): sendMessage rejects
\* when the save failed, else it starts the save of the response.
SndUserSaveAwaited(r) ==
  /\ clients[r].pc = "awaitingUserSave"
  /\ Settled(clients[r].userMessagePromise)
  /\ IF clients[r].userMessagePromise = "rejected"
     THEN /\ clients' = [clients EXCEPT ![r].pc = "failed"]
          /\ UNCHANGED saveCalls
     ELSE ResponseSaved(r, clients[r])
  /\ UNCHANGED sndFrame

\* The store has saved the user message of client r.
UserSaveFulfilled(r) ==
  /\ clients[r].userMessagePromise = "pending"
  /\ clients' = [clients EXCEPT ![r].userMessagePromise = "fulfilled"]
  /\ UNCHANGED <<saveCalls, sndFrame>>

\* The save of the user message of client r has failed.
UserSaveRejected(r) ==
  /\ clients[r].userMessagePromise = "pending"
  /\ clients' = [clients EXCEPT ![r].userMessagePromise = "rejected"]
  /\ UNCHANGED <<saveCalls, sndFrame>>

\* The requests of a multi-LLM turn: 1..MaxReq requests with the same base
\* id and different indexes, each an edit or not; and a single request
\* without an override id or with one that has no index.
InitSnd ==
  /\ IdleFit
  /\ IdleRec
  /\ IdleAsm
  /\ IdleGrp
  /\ IdleSib
  /\ IdleAdd
  /\ IdleTok
  /\ \/ \E n \in 1..MaxReq :
          \E index \in [1..n -> 0..(MaxReq - 1)], isEdited \in [1..n -> BOOLEAN] :
            /\ \A q, r \in 1..n : q # r => index[q] # index[r]
            /\ clients =
                 [r \in 1..n |->
                    NewClient(OverrideId(BaseUserMessageId, ToString(index[r])),
                              isEdited[r])]
     \/ \E override \in {<<>>, BaseUserMessageId}, isEdited \in BOOLEAN :
          clients = <<NewClient(override, isEdited)>>
  /\ saveCalls = {}

NextSnd ==
  \E r \in DOMAIN clients :
    \/ SndStart(r)
    \/ SndBuild(r)
    \/ SndSaveUser(r)
    \/ SndCompletion(r)
    \/ SndCompletionThrows(r)
    \/ SndUserSaveAwaited(r)
    \/ UserSaveFulfilled(r)
    \/ UserSaveRejected(r)

SpecSnd == InitSnd /\ [][NextSnd]_vars

(***************************************************************************)
(* handleContextStrategy, BaseClient.js 416-562 (a client other than the   *)
(* agents endpoint, buildTokenMap = true)                                  *)
(***************************************************************************)
\* new Error(`{ "type": "${ErrorTypes.INPUT_LENGTH}", "info": "${a} / ${b}" }`)
InputLengthError(count, max) == [type |-> "INPUT_LENGTH", info |-> <<count, max>>]

\* Reading a property of undefined.
TypeError == [type |-> "TypeError", info |-> <<>>]

\* What the summarizer collaborator raises when it rejects.
SummarizerError == [type |-> "SummarizerError", info |-> <<>>]

\* Variant: the instructions are not checked on entry.
InstructionsCheckMissing(instructions, max) == FALSE

\* if (tokenCount && tokenCount > this.maxContextTokens)
InstructionsTooLarge(instructions, max) ==
  /\ instructions # <<>>
  /\ instructions[1].tokenCount # 0
  /\ instructions[1].tokenCount > max

\* Variant: the slice keeps the oldest formatted messages.
SliceOldest(s, from) == SubSeq(s, 1, Len(s) - from)

\* formattedMessages.slice(diff)
Slice(s, from) == SubSeq(s, from + 1, Len(s))

\* Variant: the empty payload is reported only when summarization is on.
PromptTooLongNegated(pl, shouldSummarize, ordered) ==
  Len(pl) = 0 /\ shouldSummarize /\ ordered # <<>>

\* if (payload.length === 0 && !shouldSummarize && latestMessage)
PromptTooLong(pl, shouldSummarize, ordered) ==
  Len(pl) = 0 /\ ~shouldSummarize /\ ordered # <<>>

\* Variant: a payload of the instructions alone is let through.
InstructionsOnlyNever(pl, _instructions) == FALSE

\* else if (_instructions && payload.length === 1 &&
\*          payload[0].content === _instructions.content)
InstructionsOnly(pl, _instructions) ==
  /\ _instructions # <<>>
  /\ Len(pl) = 1
  /\ pl[1].content = _instructions[1].content

\* Lines 422-459: the instructions check, addInstructions and the call of
\* getMessagesWithinTokenLimit (which then runs FitEntry/FitLoop/FitReturn).
AsmEntry ==
  /\ a_pc = "entry"
  /\ IF InstructionsTooLarge(a_args.instructions, a_this.maxContextTokens)
     THEN /\ a_pc' = "error"
          /\ a_error' = <<InputLengthError(a_args.instructions[1].tokenCount,
                                           a_this.maxContextTokens)>>
          /\ UNCHANGED <<orderedWithInstructions, f_pc, f_args>>
     ELSE /\ orderedWithInstructions' =
               AddInstructions(a_args.orderedMessages, a_args.instructions, FALSE)
          /\ f_args' = [messages |-> orderedWithInstructions',
                        maxContextTokens |-> a_this.maxContextTokens,
                        instructions |-> a_args.instructions]
          /\ f_pc' = "entry"
          /\ a_pc' = "fit"
          /\ UNCHANGED a_error
  /\ UNCHANGED <<a_args, a_this, payload, a_remaining, usePrevSummary, summaryMessage,
                 summaryTokenCount, summarizerLog, a_result,
                 messages, context, currentTokenCount, remainingContextTokens,
                 poppedLog, f_result, asmFrame>>

\* Lines 461-522, up to the await of summarizeMessages.
AsmPayload ==
  /\ a_pc = "fit"
  /\ f_pc = "done"
  /\ LET shouldSummarize == a_this.shouldSummarize
         formattedMessages == a_args.formattedMessages
         _instructions == WithoutTokenCount(a_args.instructions)
         length == Len(formattedMessages) + (IF a_args.instructions # <<>> THEN 1 ELSE 0)
         diff == length - Len(f_result.context)
         hasFirst == orderedWithInstructions # <<>>
         firstMessage == orderedWithInstructions[1]
         \* shouldSummarize && diff === 1 && firstMessage?.summary
         readsPrevious == shouldSummarize /\ diff = 1 /\ hasFirst /\ firstMessage.summary # ""
         use == /\ readsPrevious
                /\ a_this.previous_summary # <<>>
                /\ a_this.previous_summary[1].messageId = firstMessage.messageId
         pl == AddInstructions(IF diff > 0 THEN Slice(formattedMessages, diff)
                                           ELSE formattedMessages,
                               _instructions, FALSE)
         fail(e) == /\ a_pc' = "error"
                    /\ a_error' = <<e>>
                    /\ UNCHANGED <<payload, a_remaining, usePrevSummary, summaryMessage,
                                   summaryTokenCount, summarizerLog>>
     IN IF readsPrevious /\ a_this.previous_summary = <<>>
        THEN fail(TypeError)
        ELSE IF PromptTooLong(pl, shouldSummarize, orderedWithInstructions)
        THEN fail(InputLengthError(Last(orderedWithInstructions).tokenCount,
                                   a_this.maxContextTokens))
        ELSE IF InstructionsOnly(pl, _instructions)
        THEN fail(InputLengthError(a_args.instructions[1].tokenCount + PrimingTokens,
                                   a_this.maxContextTokens))
        ELSE /\ usePrevSummary' = use
             /\ UNCHANGED a_error
             /\ IF use
                THEN /\ summaryMessage' = <<[role |-> "system", content |-> firstMessage.summary]>>
                     /\ summaryTokenCount' = firstMessage.summaryTokenCount
                     /\ payload' = summaryMessage' \o pl
                     /\ a_remaining' = JsMinus(f_result.remainingContextTokens,
                                               summaryTokenCount')
                     /\ a_pc' = "map"
                     /\ UNCHANGED summarizerLog
                ELSE /\ payload' = pl
                     /\ a_remaining' = f_result.remainingContextTokens
                     /\ UNCHANGED <<summaryMessage, summaryTokenCount>>
                     /\ IF shouldSummarize /\ Len(f_result.messagesToRefine) > 0
                        THEN /\ a_pc' = "summarizing"
                             /\ summarizerLog' = Append(summarizerLog, "called")
                        ELSE /\ a_pc' = "map"
                             /\ UNCHANGED summarizerLog
  /\ UNCHANGED <<a_args, a_this, orderedWithInstructions, a_result, fitVars, asmFrame>>

SetLast(log, v) == [log EXCEPT ![Len(log)] = v]

\* summarizeMessages resolved with { summaryMessage, summaryTokenCount }
\* (lines 516-521 after the await).
SummarizerReturnsSummary ==
  /\ a_pc = "summarizing"
  /\ \E k \in 1..MaxSummaryTok :
       /\ summaryMessage' = <<[role |-> "system", content |-> "new summary"]>>
       /\ summaryTokenCount' = k
       /\ payload' = summaryMessage' \o payload
       /\ a_remaining' = JsMinus(a_remaining, k)
  /\ summarizerLog' = SetLast(summarizerLog, "summary")
  /\ a_pc' = "map"
  /\ UNCHANGED <<a_args, a_this, orderedWithInstructions, usePrevSummary, a_error,
                 a_result, fitVars, asmFrame>>

\* summarizeMessages resolved with no summaryMessage: both destructured
\* names are undefined.
SummarizerReturnsNothing ==
  /\ a_pc = "summarizing"
  /\ summaryMessage' = <<>>
  /\ summaryTokenCount' = UndefinedNumber
  /\ a_remaining' = JsMinus(a_remaining, UndefinedNumber)
  /\ summarizerLog' = SetLast(summarizerLog, "nothing")
  /\ a_pc' = "map"
  /\ UNCHANGED <<a_args, a_this, orderedWithInstructions, payload, usePrevSummary,
                 a_error, a_result, fitVars, asmFrame>>

\* summarizeMessages rejected: nothing catches it in handleContextStrategy.
SummarizerThrows ==
  /\ a_pc = "summarizing"
  /\ summarizerLog' = SetLast(summarizerLog, "throws")
  /\ a_error' = <<SummarizerError>>
  /\ a_pc' = "error"
  /\ UNCHANGED <<a_args, a_this, orderedWithInstructions, payload, a_remaining,
                 usePrevSummary, summaryMessage, summaryTokenCount, a_result,
                 fitVars, asmFrame>>

\* The reduce of lines 536-548 over currentPayload.
TokenCountMap(currentPayload, refineLen, summarize, usePrev, sumMsg, sumTok) ==
  LET idx == { i \in 1..Len(currentPayload) : currentPayload[i].messageId # "" }
      ids == { currentPayload[i].messageId : i \in idx }
      lastOf(id) == CHOOSE i \in idx :
                      /\ currentPayload[i].messageId = id
                      /\ \A j \in idx : currentPayload[j].messageId = id => j <= i
      \* index === messagesToRefine.length - 1, with zero-based index
      at == { i \in idx : summarize /\ ~usePrev /\ i - 1 = refineLen - 1 }
  IN [counts |-> [id \in ids |-> currentPayload[lastOf(id)].tokenCount],
      summaryMessage |->
        IF at = {} THEN <<>>
        ELSE LET i == CHOOSE j \in at : TRUE
             IN <<[content |-> sumMsg[1].content,
                   messageId |-> currentPayload[i].messageId,
                   tokenCount |-> sumTok]>>]

\* Lines 524-561.
AsmReturn ==
  /\ a_pc = "map"
  /\ LET shouldSummarize == summaryMessage # <<>> /\ a_this.shouldSummarize
         currentPayload == IF shouldSummarize THEN orderedWithInstructions
                                              ELSE f_result.context
     IN a_result' =
          [payload |-> payload,
           tokenCountMap |-> TokenCountMap(currentPayload, Len(f_result.messagesToRefine),
                                           shouldSummarize, usePrevSummary,
                                           summaryMessage, summaryTokenCount),
           promptTokens |-> JsMinus(a_this.maxContextTokens, a_remaining),
           messages |-> orderedWithInstructions]
  /\ a_pc' = "done"
  /\ UNCHANGED <<a_args, a_this, orderedWithInstructions, payload, a_remaining,
                 usePrevSummary, summaryMessage, summaryTokenCount, summarizerLog,
                 a_error, fitVars, asmFrame>>

\* The thread handed to assemble; its first message may carry the summary
\* of an earlier truncation.
WithSummary(thread) ==
  [thread EXCEPT ![1] = [@ EXCEPT !.summary = "previous summary",
                                  !.summaryTokenCount = 1]]

AsmInit(thread, instructions, max, summarize, previous) ==
  /\ a_pc = "entry"
  /\ a_args = [instructions |-> instructions,
               orderedMessages |-> thread,
               formattedMessages |-> [i \in 1..Len(thread) |-> Formatted(thread[i])]]
  /\ a_this = [maxContextTokens |-> max, shouldSummarize |-> summarize,
               previous_summary |-> previous]
  /\ orderedWithInstructions = <<>>
  /\ payload = <<>>
  /\ a_remaining = 0
  /\ usePrevSummary = FALSE
  /\ summaryMessage = <<>>
  /\ summaryTokenCount = UndefinedNumber
  /\ summarizerLog = <<>>
  /\ a_error = <<>>
  /\ a_result = NoAsmResult

InitAsm ==
  /\ IdleAdd
  /\ IdleTok
  /\ IdleSnd
  /\ IdleFit
  /\ IdleRec
  /\ IdleGrp
  /\ IdleSib
  /\ \E n \in 0..MaxThread : \E toks \in [1..n -> 0..MaxTok] :
       \E thread \in {ThreadOf(n, toks)}
                     \cup (IF n = 0 THEN {} ELSE {WithSummary(ThreadOf(n, toks))}),
          instructions \in InstructionsChoices,
          max \in 0..MaxCtx,
          summarize \in BOOLEAN,
          previous \in {<<>>, <<[messageId |-> IdOf(1)]>>, <<[messageId |-> "other"]>>} :
         AsmInit(thread, instructions, max, summarize, previous)

NextAsm ==
  \/ AsmEntry
  \/ FitEntry
  \/ FitLoop
  \/ FitReturn
  \/ AsmPayload
  \/ SummarizerReturnsSummary
  \/ SummarizerReturnsNothing
  \/ SummarizerThrows
  \/ AsmReturn

SpecAsm == InitAsm /\ [][NextAsm]_vars

(***************************************************************************)
(* MultiMessage.messageGroups, BaseClient.js 1728-1796                     *)
(***************************************************************************)
\* A message of the tree as the grouping reads it.
TreeMsg(i, byUser, parent, created) ==
  [messageId |-> IdOf(i), isCreatedByUser |-> byUser,
   parentMessageId |-> parent, createdAt |-> created]

\* m placed behind every element that is not created later: what a stable
\* sort does with the next element of the input.
InsertByCreatedAt(sorted, m) ==
  LET k == Cardinality({ i \in 1..Len(sorted) : sorted[i].createdAt <= m.createdAt })
  IN SubSeq(sorted, 1, k) \o <<m>> \o SubSeq(sorted, k + 1, Len(sorted))

\* [...messagesTree].sort((a, b) => a.createdAt - b.createdAt), stable.
RECURSIVE SortByCreatedAt(_)
SortByCreatedAt(s) ==
  IF s = <<>> THEN <<>>
  ELSE InsertByCreatedAt(SortByCreatedAt(Front(s)), Last(s))

\* Variant: the filter does not look at processedIds.
IsDirectAiResponseAnyState(msg, message, processed) ==
  /\ ~msg.isCreatedByUser
  /\ msg.parentMessageId = message.messageId

\* The filter of lines 1754-1759.
IsDirectAiResponse(msg, message, processed) ==
  /\ ~msg.isCreatedByUser
  /\ msg.parentMessageId = message.messageId
  /\ msg.messageId \notin processed

\* Variant: a combined turn needs more than two responses.
MoreThanTwoResponses(responses) == Len(responses) > 2

\* if (directAiResponses.length > 1)
MultipleResponses(responses) == Len(responses) > 1

\* Variant: a single response is not emitted.
SingleResponseDropped(responses) == FALSE

\* if (directAiResponses.length === 1)
SingleResponse(responses) == Len(responses) = 1

Standalone(m) == [userMessage |-> <<>>, aiResponses |-> <<>>, standalone |-> <<m>>]
Combined(m, responses) ==
  [userMessage |-> <<m>>, aiResponses |-> responses, standalone |-> <<>>]

\* Lines 1729-1744: the empty check, the sort, the empty groups and set.
GroupSort ==
  /\ g_pc = "entry"
  /\ sortedMessages' = SortByCreatedAt(messagesTree)
  /\ groups' = <<>>
  /\ processedIds' = {}
  /\ g_index' = 1
  /\ g_pc' = IF Len(messagesTree) = 0 THEN "done" ELSE "loop"
  /\ UNCHANGED <<messagesTree, grpFrame>>

\* One iteration of the for...of loop (1747-1793).
GroupStep ==
  /\ g_pc = "loop"
  /\ g_index <= Len(sortedMessages)
  /\ LET message == sortedMessages[g_index]
         Test(msg) == IsDirectAiResponse(msg, message, processedIds)
         directAiResponses == SelectSeq(sortedMessages, Test)
     IN IF message.messageId \in processedIds
        THEN UNCHANGED <<groups, processedIds>>
        ELSE IF message.isCreatedByUser
        THEN /\ processedIds' = processedIds \cup {message.messageId}
                  \cup { directAiResponses[i].messageId : i \in 1..Len(directAiResponses) }
             /\ groups' =
                  IF MultipleResponses(directAiResponses)
                  THEN Append(groups, Combined(message, directAiResponses))
                  ELSE Append(groups, Standalone(message))
                         \o (IF SingleResponse(directAiResponses)
                             THEN <<Standalone(directAiResponses[1])>> ELSE <<>>)
        ELSE /\ processedIds' = processedIds \cup {message.messageId}
             /\ groups' = Append(groups, Standalone(message))
  /\ g_index' = g_index + 1
  /\ UNCHANGED <<g_pc, messagesTree, sortedMessages, grpFrame>>

\* The loop is over: return groups.
GroupReturn ==
  /\ g_pc = "loop"
  /\ g_index > Len(sortedMessages)
  /\ g_pc' = "done"
  /\ UNCHANGED <<messagesTree, sortedMessages, groups, processedIds, g_index, grpFrame>>

\* Trees of n messages m1..mn in array order, each written by the user or
\* by a model, pointing at another message or at the root, with any
\* creation times (ties and array order against creation order included).
InitGrp ==
  /\ IdleAdd
  /\ IdleTok
  /\ IdleSnd
  /\ IdleFit
  /\ IdleRec
  /\ IdleAsm
  /\ IdleSib
  /\ g_pc = "entry"
  /\ \E n \in 0..MaxTree :
       \E byUser \in [1..n -> BOOLEAN],
          parent \in [1..n -> 0..n],
          created \in [1..n -> 1..MaxTime] :
         /\ \A i \in 1..n : parent[i] # i
         /\ messagesTree =
              [i \in 1..n |->
                 TreeMsg(i, byUser[i],
                         IF parent[i] = 0 THEN NO_PARENT ELSE IdOf(parent[i]),
                         created[i])]
  /\ sortedMessages = <<>>
  /\ groups = <<>>
  /\ processedIds = {}
  /\ g_index = 0

NextGrp == GroupSort \/ GroupStep \/ GroupReturn

SpecGrp == InitGrp /\ [][NextGrp]_vars

(***************************************************************************)
(* getMessagesWithMultiLLMSiblings, api/models/Message 372-470             *)
(***************************************************************************)
\* The conversation the route asks for, and another one of the store.
CurrentConversation == "c1"
OtherConversation == "c2"

\* The owner of the current conversation, and another user of the store.
Owner == "u1"
OtherUser == "u2"

\* null / absent sharedUserMessageId or parentMessageId: falsy.
NoKey == ""

\* The entries of an llmResponses list of n entries stored on message i.
Responses(i, n) ==
  [k \in 1..n |-> [text |-> "response " \o ToString(k) \o " of " \o IdOf(i),
                   model |-> "model " \o ToString(k),
                   endpoint |-> "endpoint " \o ToString(k)]]

\* A document of the Message collection.  llmResponses is <<>> when the
\* field is absent and <<list>> otherwise; multiLLMSiblings likewise.
Document(i, conv, user, key, parent, byUser, responses) ==
  [messageId |-> IdOf(i), conversationId |-> conv, user |-> user,
   parentMessageId |-> parent, isCreatedByUser |-> byUser,
   sharedUserMessageId |-> key, llmResponses |-> responses,
   text |-> "text of " \o IdOf(i), model |-> "stored model",
   endpoint |-> "stored endpoint", createdAt |-> i, updatedAt |-> i,
   multiLLMSiblings |-> <<>>]

\* getMessages(filter, select): Message.find(filter).sort({ createdAt: 1 }).lean()
\* A filter without a user key puts no condition on the user.
GetMessages(store, filter) ==
  SelectSeq(store, LAMBDA m :
    /\ m.conversationId = filter.conversationId
    /\ filter.user # <<>> => m.user = filter.user[1])

\* msg.llmResponses && Array.isArray(msg.llmResponses) && msg.llmResponses.length > 1
IsMultiLLM(msg) == msg.llmResponses # <<>> /\ Len(msg.llmResponses[1]) > 1

\* Variant: the derived id does not carry the index.
SiblingIdWithoutIndex(msg, index) == msg.messageId \o "_sibling"

\* messageId: `${msg.messageId}_sibling_${index}` (index is zero-based)
SiblingId(msg, index) == msg.messageId \o "_sibling_" \o ToString(index)

\* One synthetic sibling (lines 398-409).
Sibling(msg, response, index) ==
  [messageId |-> SiblingId(msg, index),
   conversationId |-> msg.conversationId,
   parentMessageId |-> msg.parentMessageId,
   text |-> response.text,
   model |-> response.model,
   endpoint |-> response.endpoint,
   isCreatedByUser |-> FALSE,
   createdAt |-> msg.createdAt,
   updatedAt |-> msg.updatedAt,
   user |-> msg.user]

\* The primary message built from a message with several responses
\* (lines 384-410).
PrimaryMessage(msg) ==
  LET primaryResponse == Head(msg.llmResponses[1])
      additionalResponses == Tail(msg.llmResponses[1])
  IN [msg EXCEPT
        !.text = primaryResponse.text,
        !.model = primaryResponse.model,
        !.endpoint = primaryResponse.endpoint,
        !.multiLLMSiblings =
           IF Len(additionalResponses) > 0
           THEN <<[k \in 1..Len(additionalResponses) |->
                     Sibling(msg, additionalResponses[k], k - 1)]>>
           ELSE <<>>]

\* Variant: the message goes to the front of the output.
PushedFront(list, m) == <<m>> \o list

\* messagesWithSiblings.push(...)
Pushed(list, m) == Append(list, m)

\* msg.sharedUserMessageId && (!msg.llmResponses || msg.llmResponses.length <= 1)
LegacyCandidate(msg) ==
  /\ msg.sharedUserMessageId # NoKey
  /\ msg.llmResponses = <<>> \/ Len(msg.llmResponses[1]) <= 1

\* The condition `user: filter.user` of the sibling query.  With no user in
\* the filter the value is undefined: the store either reads it as null
\* (no stored message matches, every one has a user) or drops the condition.
UserMatches(m, filter, asNull) ==
  IF filter.user # <<>> THEN m.user = filter.user[1] ELSE ~asNull

\* Message.find({ user, sharedUserMessageId: { $in }, conversationId: { $ne } })
\*   .sort({ createdAt: 1 }).lean()
FindSiblingMessages(store, filter, keys, asNull) ==
  SelectSeq(store, LAMBDA m :
    /\ UserMatches(m, filter, asNull)
    /\ \E k \in 1..Len(keys) : keys[k] = m.sharedUserMessageId
    /\ m.conversationId # filter.conversationId)

\* siblingGroups after the forEach of lines 438-443.
GroupByKey(siblingMessages) ==
  [key \in { siblingMessages[i].sharedUserMessageId : i \in 1..Len(siblingMessages) } |->
     SelectSeq(siblingMessages, LAMBDA m : m.sharedUserMessageId = key)]

\* Variant: a parentless message counts as an assistant sibling.
AssistantSiblingWithoutParent(sibling) == ~sibling.isCreatedByUser

\* (sibling) => !sibling.isCreatedByUser && sibling.parentMessageId
AssistantSibling(sibling) ==
  ~sibling.isCreatedByUser /\ sibling.parentMessageId # NoKey

\* The body of the forEach of lines 446-462 for one message.
WithLegacySiblings(msg, siblingGroupsNow) ==
  IF LegacyCandidate(msg) /\ msg.sharedUserMessageId \in DOMAIN siblingGroupsNow
  THEN LET assistantSiblings ==
             SelectSeq(siblingGroupsNow[msg.sharedUserMessageId], AssistantSibling)
       IN IF Len(assistantSiblings) > 0
          THEN [msg EXCEPT !.multiLLMSiblings = <<assistantSiblings>>]
          ELSE msg
  ELSE msg

\* The whole function applied to a list of main messages: the first pass,
\* the legacy keys, the sibling query and the second pass.
GroupSiblings(list, store, filter, asNull) ==
  LET firstPass == [i \in 1..Len(list) |->
                      IF IsMultiLLM(list[i]) THEN PrimaryMessage(list[i]) ELSE list[i]]
      candidates == SelectSeq(list, LegacyCandidate)
      keys == [k \in 1..Len(candidates) |-> candidates[k].sharedUserMessageId]
      grouped == IF Len(keys) > 0
                 THEN GroupByKey(FindSiblingMessages(store, filter, keys, asNull))
                 ELSE <<>>
  IN [i \in 1..Len(list) |-> WithLegacySiblings(firstPass[i], grouped)]

\* const mainMessages = await getMessages(filter, select);
SibGetMessages ==
  /\ s_pc = "entry"
  /\ mainMessages' = GetMessages(s_store, s_filter)
  /\ messagesWithSiblings' = <<>>
  /\ s_index' = 1
  /\ s_pc' = "transform"
  /\ UNCHANGED <<s_filter, s_store, undefinedAsNull, sharedUserMessageIds,
                 siblingGroups, s_result, sibFrame>>

\* One iteration of mainMessages.forEach (lines 380-417).
SibTransform ==
  /\ s_pc = "transform"
  /\ s_index <= Len(mainMessages)
  /\ LET msg == mainMessages[s_index]
     IN messagesWithSiblings' =
          IF IsMultiLLM(msg) THEN Pushed(messagesWithSiblings, PrimaryMessage(msg))
                             ELSE Pushed(messagesWithSiblings, msg)
  /\ s_index' = s_index + 1
  /\ UNCHANGED <<s_pc, s_filter, s_store, undefinedAsNull, mainMessages,
                 sharedUserMessageIds, siblingGroups, s_result, sibFrame>>

\* Lines 420-426: the legacy keys of the main messages.
SibCollectKeys ==
  /\ s_pc = "transform"
  /\ s_index > Len(mainMessages)
  /\ LET candidates == SelectSeq(mainMessages, LegacyCandidate)
     IN sharedUserMessageIds' =
          [k \in 1..Len(candidates) |-> candidates[k].sharedUserMessageId]
  /\ s_pc' = IF Len(sharedUserMessageIds') > 0 THEN "find" ELSE "return"
  /\ UNCHANGED <<s_filter, s_store, undefinedAsNull, mainMessages,
                 messagesWithSiblings, siblingGroups, s_index, s_result, sibFrame>>

\* Lines 428-443: the sibling query and the grouping of its result by key.
SibFind ==
  /\ s_pc = "find"
  /\ siblingGroups' =
       GroupByKey(FindSiblingMessages(s_store, s_filter, sharedUserMessageIds,
                                      undefinedAsNull))
  /\ s_index' = 1
  /\ s_pc' = "attach"
  /\ UNCHANGED <<s_filter, s_store, undefinedAsNull, mainMessages,
                 messagesWithSiblings, sharedUserMessageIds, s_result, sibFrame>>

\* One iteration of messagesWithSiblings.forEach (lines 446-462).  A message
\* that went through the else branch of the first pass is the very object of
\* mainMessages, so the assignment shows there too.
SibAttach ==
  /\ s_pc = "attach"
  /\ s_index <= Len(messagesWithSiblings)
  /\ LET msg == WithLegacySiblings(messagesWithSiblings[s_index], siblingGroups)
     IN /\ messagesWithSiblings' = [messagesWithSiblings EXCEPT ![s_index] = msg]
        /\ mainMessages' =
             IF IsMultiLLM(mainMessages[s_index]) THEN mainMessages
             ELSE [mainMessages EXCEPT ![s_index] = msg]
  /\ s_index' = s_index + 1
  /\ UNCHANGED <<s_pc, s_filter, s_store, undefinedAsNull, sharedUserMessageIds,
                 siblingGroups, s_result, sibFrame>>

\* return messagesWithSiblings;
SibReturn ==
  /\ \/ s_pc = "return"
     \/ s_pc = "attach" /\ s_index > Len(messagesWithSiblings)
  /\ s_result' = messagesWithSiblings
  /\ s_pc' = "done"
  /\ UNCHANGED <<s_filter, s_store, undefinedAsNull, mainMessages,
                 messagesWithSiblings, sharedUserMessageIds, siblingGroups,
                 s_index, sibFrame>>

\* The messages of the current conversation: with or without a legacy key,
\* with no llmResponses field or one of 1..MaxResp entries.
MainKinds ==
  { <<key, n>> : key \in {NoKey, "k1"}, n \in 0..MaxResp }

MainDocument(i, kind) ==
  Document(i, CurrentConversation, Owner, kind[1], IdOf(0), FALSE,
           IF kind[2] = 0 THEN <<>> ELSE <<Responses(i, kind[2])>>)

\* The messages of another conversation: an assistant reply of the owner
\* that shares the key, and the same with one thing changed (user-authored,
\* no parent pointer, another user, another key).
OtherKinds == {"reply", "user-authored", "parentless", "other user", "other key"}

OtherDocument(i, kind) ==
  Document(i, OtherConversation,
           IF kind = "other user" THEN OtherUser ELSE Owner,
           IF kind = "other key" THEN "k2" ELSE "k1",
           IF kind = "parentless" THEN NoKey ELSE IdOf(0),
           kind = "user-authored",
           <<>>)

\* How the route and other callers ask: with the user in the filter, or
\* without it (then `user: undefined` reaches the sibling query).
FilterChoices ==
  { <<<<Owner>>, FALSE>>, <<<<>>, FALSE>>, <<<<>>, TRUE>> }

InitSib ==
  /\ IdleAdd
  /\ IdleTok
  /\ IdleSnd
  /\ IdleFit
  /\ IdleRec
  /\ IdleAsm
  /\ IdleGrp
  /\ s_pc = "entry"
  /\ \E n \in 0..MaxStore : \E nMain \in 0..n :
       \E mk \in [1..nMain -> MainKinds], ok \in [(nMain + 1)..n -> OtherKinds] :
         s_store = [i \in 1..n |-> IF i <= nMain THEN MainDocument(i, mk[i])
                                                 ELSE OtherDocument(i, ok[i])]
  /\ \E f \in FilterChoices :
       /\ s_filter = [conversationId |-> CurrentConversation, user |-> f[1]]
       /\ undefinedAsNull = f[2]
  /\ mainMessages = <<>>
  /\ messagesWithSiblings = <<>>
  /\ sharedUserMessageIds = <<>>
  /\ siblingGroups = <<>>
  /\ s_index = 0
  /\ s_result = <<>>

NextSib ==
  \/ SibGetMessages
  \/ SibTransform
  \/ SibCollectKeys
  \/ SibFind
  \/ SibAttach
  \/ SibReturn

SpecSib == InitSib /\ [][NextSib]_vars

(***************************************************************************)
(* Properties of getMessagesWithinTokenLimit                               *)
(***************************************************************************)
FitDone == f_pc = "done"
FitThread == f_args.messages
FitBudget == f_args.maxContextTokens - InstructionsTokenCount(f_args.instructions)
HasInstructions == f_args.instructions # <<>>

\* The context messages the pop loop selected: the whole context, without
\* the forced first thread element when instructions are given.
LoopSelected ==
  IF HasInstructions THEN Tail(f_result.context) ELSE f_result.context

\* C1 (as stated): the token counts of the returned context, the forced
\* first element included, sum to at most maxTokens minus the instructions
\* token count.
C1_ContextWithinBudget ==
  FitDone => SumTokens(f_result.context) <= FitBudget

\* C1 (amended): the token counts of the context messages selected by the
\* pop loop (the context without the forced first element), plus the
\* 3-token priming reserve, never exceed maxTokens minus the instructions
\* token count whenever at least one message was selected.
C1_SelectedWithinBudget ==
  FitDone =>
    (LoopSelected # <<>> =>
       PrimingTokens + SumTokens(LoopSelected) <= FitBudget)

C1_Witness ==
  /\ FitDone
  /\ HasInstructions
  /\ Len(FitThread) = 3
  /\ Len(LoopSelected) = 2
  /\ SumTokens(LoopSelected) > 0

\* Number of newest messages k such that every one of them was added while
\* the budget held: with inclusive = TRUE a message is taken whenever the
\* total stays within the budget; with inclusive = FALSE the running total
\* before adding it must also be strictly below the budget.
FitsSuffix(thread, k, budget, inclusive) ==
  \/ k = 0
  \/ /\ k <= Len(thread)
     /\ PrimingTokens + SumTokens(Suffix(thread, k)) <= budget
     /\ ~inclusive =>
           PrimingTokens + SumTokens(Suffix(thread, k - 1)) < budget

LongestFit(thread, budget, inclusive) ==
  CHOOSE k \in 0..Len(thread) :
    /\ FitsSuffix(thread, k, budget, inclusive)
    /\ \A j \in 0..Len(thread) : FitsSuffix(thread, j, budget, inclusive) => j <= k

SplitsAt(k) ==
  /\ f_result.context = Suffix(FitThread, k)
  /\ f_result.messagesToRefine = Prefix(FitThread, Len(FitThread) - k)

\* C2 (as stated): without instructions the context is the longest suffix
\* whose token counts plus the 3-token reserve sum to at most maxTokens, a
\* message being excluded only when adding it would exceed the budget, and
\* messagesToRefine is the remaining older prefix.
C2_LongestSuffix ==
  (FitDone /\ ~HasInstructions) =>
    SplitsAt(LongestFit(FitThread, f_args.maxContextTokens, TRUE))

\* C2 (amended): without instructions the context is the longest suffix
\* whose token counts plus the 3-token reserve sum to at most maxTokens and
\* whose oldest message was added while the running total was still
\* strictly below maxTokens (a message is excluded when adding it would
\* exceed the budget or when the budget is already exactly used up), in
\* oldest-first order; messagesToRefine is the remaining older prefix.
C2_LongestStrictSuffix ==
  (FitDone /\ ~HasInstructions) =>
    SplitsAt(LongestFit(FitThread, f_args.maxContextTokens, FALSE))

\* The scenario [10,10,10,10,10] with maxTokens 25: the 2 newest fit.
C2_Witness ==
  /\ FitDone
  /\ FitThread = ScenarioThread
  /\ f_args.maxContextTokens = ScenarioMaxTokens
  /\ f_result.context = <<ScenarioThread[4], ScenarioThread[5]>>
  /\ f_result.messagesToRefine = <<ScenarioThread[1], ScenarioThread[2], ScenarioThread[3]>>

Occurrences(s, id) == Cardinality({ i \in 1..Len(s) : s[i].messageId = id })

\* C3: when instructions are given and the thread has more than one
\* message, the loop never pops the thread's oldest element, and on return
\* that element is the first element of the context and occurs in it
\* exactly once.
C3_OldestAnchored ==
  (HasInstructions /\ Len(FitThread) > 1) =>
    /\ Occurrences(poppedLog, FitThread[1].messageId) = 0
    /\ FitDone =>
         /\ f_result.context[1] = FitThread[1]
         /\ Occurrences(f_result.context, FitThread[1].messageId) = 1

\* The loop accepted every younger message and stopped at the anchor.
C3_Witness ==
  /\ FitDone
  /\ HasInstructions
  /\ Len(FitThread) = 3
  /\ Len(poppedLog) = 2
  /\ Len(f_result.context) = 3
  /\ f_result.context[1] = FitThread[1]

(***************************************************************************)
(* Properties of getMessagesForConversation                                *)
(***************************************************************************)
RecDone == r_pc = "done"
RecInput == r_args.messages
RecIds == { RecInput[i].messageId : i \in 1..Len(RecInput) }

MessageOf(id) == RecInput[FindMessage(RecInput, id)]

\* Every parentId references an earlier-created message or the root
\* sentinel.
WellFormedChain ==
  \A i \in 1..Len(RecInput) :
    LET p == RecInput[i].parentMessageId
    IN \/ p = NO_PARENT
       \/ /\ p \in RecIds
          /\ MessageOf(p).createdAt < RecInput[i].createdAt

StrictlyIncreasingCreation(res) ==
  \A k \in 1..(Len(res) - 1) : res[k].createdAt < res[k + 1].createdAt

\* C4: for an acyclic chain whose parent pointers all reference an
\* earlier-created message or the root, reconstruct started at the id of a
\* message returns the messages in strictly increasing creation order and
\* the last element is the message startId names.
C4_OldestFirstEndingAtStart ==
  (RecDone /\ WellFormedChain /\ r_args.parentMessageId \in RecIds) =>
    /\ r_result # <<>>
    /\ StrictlyIncreasingCreation(r_result)
    /\ Last(r_result).messageId = r_args.parentMessageId

\* A chain of three messages walked from the leaf to the root.
C4_Witness ==
  /\ RecDone
  /\ WellFormedChain
  /\ r_args.parentMessageId = IdOf(3)
  /\ Len(r_result) = 3
  /\ r_result[1].messageId = IdOf(1)
  /\ r_result[3].messageId = IdOf(3)

\* id is its own ancestor through the parent pointers of the collection.
RECURSIVE ReachesIn(_, _, _)
ReachesIn(from, target, n) ==
  /\ n > 0
  /\ from \in RecIds
  /\ LET p == MessageOf(from).parentMessageId
     IN p = target \/ ReachesIn(p, target, n - 1)

HasCycle == \E id \in RecIds : ReachesIn(id, id, Len(RecInput))

\* C5: on a collection whose parent pointers contain a cycle, reconstruct
\* terminates (it returns; there is no error exit) and the returned
\* sequence is no longer than the number of distinct message ids.
C5_CycleTerminates ==
  (r_pc = "entry" /\ HasCycle) ~>
    (RecDone /\ Len(r_result) <= Cardinality(RecIds))

\* The walk ran round a cycle of three messages and the guard stopped it.
C5_Witness ==
  /\ RecDone
  /\ HasCycle
  /\ ~r_args.summary
  /\ Len(r_result) = 3
  /\ currentMessageId = r_args.parentMessageId
  /\ currentMessageId \in visitedMessageIds

(***************************************************************************)
(* Properties of handleContextStrategy                                     *)
(***************************************************************************)
AsmThread == a_args.orderedMessages
AsmHasInstructions == a_args.instructions # <<>>
AsmInstructionsTokens == InstructionsTokenCount(a_args.instructions)
AsmMax == a_this.maxContextTokens
AsmFinished == a_pc \in {"done", "error"}
AsmFitReturned == a_pc # "entry" /\ f_pc = "done"

\* C6: when the instructions token count is greater than maxContextTokens,
\* assemble throws INPUT_LENGTH (instructions count / max) and nothing else
\* ever happens: the instructions are not prepended, the budgeter is not
\* run, the summarizer is not invoked and no payload is built.
C6_OversizedInstructionsFailFirst ==
  (AsmHasInstructions /\ AsmInstructionsTokens > AsmMax) =>
    /\ a_pc \in {"entry", "error"}
    /\ a_pc = "error" => a_error = <<InputLengthError(AsmInstructionsTokens, AsmMax)>>
    /\ f_pc = "idle"
    /\ orderedWithInstructions = <<>>
    /\ payload = <<>>
    /\ summarizerLog = <<>>
    /\ a_result = NoAsmResult

C6_Witness ==
  /\ a_pc = "error"
  /\ AsmHasInstructions
  /\ AsmInstructionsTokens > AsmMax
  /\ Len(AsmThread) = 2
  /\ a_this.shouldSummarize
  /\ f_pc = "idle"

\* The newest thread message alone does not fit the budget that is left
\* after the instructions (which themselves are within maxContextTokens).
NewestDoesNotFit ==
  /\ AsmThread # <<>>
  /\ AsmInstructionsTokens <= AsmMax
  /\ PrimingTokens + Last(AsmThread).tokenCount > AsmMax - AsmInstructionsTokens

NewestTooLargeError == <<InputLengthError(Last(AsmThread).tokenCount, AsmMax)>>

SummarizerFailed ==
  summarizerLog # <<>> /\ Last(summarizerLog) \in {"nothing", "throws"}

\* C8: when the summarizer throws or returns no summaryMessage, assemble
\* still returns normally: the payload holds no summary message (it is the
\* sliced formatted payload with the instructions) and promptTokens and
\* the remaining budget are those of the fitted context.
C8_SummarizerFailureRecovered ==
  (SummarizerFailed /\ a_pc # "map") =>
    /\ a_pc = "done"
    /\ a_error = <<>>
    /\ a_result.payload = payload
    /\ \A i \in 1..Len(payload) : payload[i].content # "new summary"
    /\ a_remaining = f_result.remainingContextTokens
    /\ a_result.promptTokens = AsmMax - f_result.remainingContextTokens

(***************************************************************************)
(* Properties of MultiMessage.messageGroups                                *)
(***************************************************************************)
GrpDone == g_pc = "done"
TreeIds == { messagesTree[i].messageId : i \in 1..Len(messagesTree) }

\* The message ids a turn holds, in the order standalone, userMessage,
\* responses.
TurnIds(g) ==
  [i \in 1..Len(g.standalone) |-> g.standalone[i].messageId]
    \o [i \in 1..Len(g.userMessage) |-> g.userMessage[i].messageId]
    \o [i \in 1..Len(g.aiResponses) |-> g.aiResponses[i].messageId]

RECURSIVE PlacedIds(_)
PlacedIds(gs) == IF gs = <<>> THEN <<>> ELSE TurnIds(Head(gs)) \o PlacedIds(Tail(gs))

TimesPlaced(id) ==
  LET placed == PlacedIds(groups)
  IN Cardinality({ i \in 1..Len(placed) : placed[i] = id })

\* C9: the turns emitted for a thread with distinct ids place every input
\* message id exactly once (as standalone, userMessage or response) and
\* place no other id, whatever the createdAt values and the orphans.
C9_TurnsPartitionThread ==
  GrpDone =>
    /\ \A id \in TreeIds : TimesPlaced(id) = 1
    /\ Len(PlacedIds(groups)) = Cardinality(TreeIds)

\* An assistant message created before the user message it answers (an
\* orphan when it is reached), and a third message.
C9_Witness ==
  /\ GrpDone
  /\ Len(messagesTree) = 3
  /\ \E i, j \in 1..3 :
       /\ messagesTree[i].isCreatedByUser
       /\ ~messagesTree[j].isCreatedByUser
       /\ messagesTree[j].parentMessageId = messagesTree[i].messageId
       /\ messagesTree[j].createdAt < messagesTree[i].createdAt
  /\ Len(groups) = 3

\* The assistant messages that answer sortedMessages[u] and are unclaimed
\* when the scan reaches it: those sorted behind it (one sorted before it
\* was already emitted as an orphan).
UnclaimedResponses(u) ==
  LET Test(msg) == /\ ~msg.isCreatedByUser
                   /\ msg.parentMessageId = sortedMessages[u].messageId
  IN SelectSeq(SubSeq(sortedMessages, u + 1, Len(sortedMessages)), Test)

InCreationOrder(s) ==
  \A i, j \in 1..Len(s) : i < j => s[i].createdAt <= s[j].createdAt

\* C10: for every user-authored message with two or more unclaimed
\* assistant messages whose parentMessageId is its id, exactly one turn has
\* it as userMessage, the responses of that turn are all of those
\* assistant messages in creation order, and none of them is a standalone
\* turn.
C10_CombinedTurn ==
  GrpDone =>
    \A u \in 1..Len(sortedMessages) :
      LET user == sortedMessages[u]
          responses == UnclaimedResponses(u)
          turns == { k \in 1..Len(groups) : groups[k].userMessage = <<user>> }
      IN (user.isCreatedByUser /\ Len(responses) >= 2) =>
           /\ Cardinality(turns) = 1
           /\ \A k \in turns : groups[k].aiResponses = responses
           /\ InCreationOrder(responses)
           /\ \A k \in 1..Len(groups), i \in 1..Len(responses) :
                groups[k].standalone # <<responses[i]>>
           /\ \A k \in 1..Len(groups) : groups[k].standalone # <<user>>

\* U1 with the children A1 and A2 (the scenario of the design), the user
\* message being stored last in the array although it was created first.
C10_Witness ==
  /\ GrpDone
  /\ Len(messagesTree) = 3
  /\ messagesTree[3].isCreatedByUser
  /\ messagesTree[3].createdAt = 1
  /\ \A i \in {1, 2} : /\ ~messagesTree[i].isCreatedByUser
                       /\ messagesTree[i].parentMessageId = IdOf(3)
                       /\ messagesTree[i].createdAt = 2
  /\ groups = <<Combined(messagesTree[3], <<messagesTree[1], messagesTree[2]>>)>>


(***************************************************************************)
(* Properties of getMessagesWithMultiLLMSiblings                           *)
(***************************************************************************)
SibDone == s_pc = "done"

\* The stored messages the call is about, as the store holds them.
SibInput == GetMessages(s_store, s_filter)

\* The siblings list of a returned message; empty when it has none.
SiblingsOf(m) == IF m.multiLLMSiblings = <<>> THEN <<>> ELSE m.multiLLMSiblings[1]

\* C11: a stored message whose llmResponses list has n > 1 entries comes
\* back as a primary message with the text and model of entry 0 and exactly
\* n-1 siblings; the k-th sibling has the text and model of entry k, is not
\* user-authored, has the primary's conversationId, parentMessageId and
\* timestamps, and an id that differs from the primary's id and from the id
\* of every other sibling.
C11_PrimaryAndSiblings ==
  SibDone =>
    /\ Len(s_result) = Len(SibInput)
    /\ \A i \in 1..Len(SibInput) :
         LET stored == SibInput[i]
             primary == s_result[i]
             siblings == SiblingsOf(primary)
         IN (stored.llmResponses # <<>> /\ Len(stored.llmResponses[1]) > 1) =>
              LET entries == stored.llmResponses[1]
              IN /\ primary.messageId = stored.messageId
                 /\ primary.text = entries[1].text
                 /\ primary.model = entries[1].model
                 /\ Len(siblings) = Len(entries) - 1
                 /\ \A k \in 1..Len(siblings) :
                      /\ siblings[k].text = entries[k + 1].text
                      /\ siblings[k].model = entries[k + 1].model
                      /\ siblings[k].isCreatedByUser = FALSE
                      /\ siblings[k].conversationId = primary.conversationId
                      /\ siblings[k].parentMessageId = primary.parentMessageId
                      /\ siblings[k].createdAt = primary.createdAt
                      /\ siblings[k].updatedAt = primary.updatedAt
                      /\ siblings[k].messageId # primary.messageId
                      /\ \A j \in 1..Len(siblings) :
                           j # k => siblings[j].messageId # siblings[k].messageId

\* A message with three responses came back with two siblings.
C11_Witness ==
  /\ SibDone
  /\ \E i \in 1..Len(SibInput) :
       /\ SibInput[i].llmResponses # <<>>
       /\ Len(SibInput[i].llmResponses[1]) = 3
       /\ Len(SiblingsOf(s_result[i])) = 2
       /\ s_result[i].text = "response 1 of " \o SibInput[i].messageId

\* C12: a message with no llmResponses list and no legacy key comes back
\* unchanged, with no siblings list, at the position it had in the input,
\* and grouping the output again leaves it unchanged.
C12_PlainMessageUnchanged ==
  SibDone =>
    \A i \in 1..Len(SibInput) :
      (SibInput[i].llmResponses = <<>> /\ SibInput[i].sharedUserMessageId = NoKey) =>
        /\ i <= Len(s_result)
        /\ s_result[i] = SibInput[i]
        /\ s_result[i].multiLLMSiblings = <<>>
        /\ GroupSiblings(s_result, s_store, s_filter, undefinedAsNull)[i] = s_result[i]

\* A plain message came back second, after a message that received
\* siblings.
C12_Witness ==
  /\ SibDone
  /\ Len(s_result) >= 2
  /\ SiblingsOf(s_result[1]) # <<>>
  /\ SibInput[2].llmResponses = <<>>
  /\ SibInput[2].sharedUserMessageId = NoKey
  /\ s_result[2] = SibInput[2]

\* A stored message takes the legacy path when it has no llmResponses list
\* of more than one entry.
OnLegacyPath(stored) ==
  stored.llmResponses = <<>> \/ Len(stored.llmResponses[1]) <= 1

\* The messages of other conversations that share the key of a stored
\* message, are not user-authored and have a parent pointer.
SharingKey(stored) ==
  SelectSeq(s_store, LAMBDA m :
    /\ stored.sharedUserMessageId # NoKey
    /\ m.sharedUserMessageId = stored.sharedUserMessageId
    /\ m.conversationId # s_filter.conversationId
    /\ ~m.isCreatedByUser
    /\ m.parentMessageId # NoKey)

\* Those of them that the sibling query's user condition lets through.
SharingKeyForUser(stored) ==
  SelectSeq(SharingKey(stored), LAMBDA m :
    IF s_filter.user # <<>> THEN m.user = s_filter.user[1] ELSE ~undefinedAsNull)

\* The synthetic siblings of a primary never were stored messages.
KeepsModernSiblings(stored, returned) ==
  ~OnLegacyPath(stored) =>
    /\ Len(SiblingsOf(returned)) = Len(stored.llmResponses[1]) - 1
    /\ \A k \in 1..Len(SiblingsOf(returned)) :
         SiblingsOf(returned)[k].text = stored.llmResponses[1][k + 1].text

\* C13 (as stated): on the legacy path the siblings attached to a message
\* are exactly the messages of other conversations that share its legacy
\* key, are not user-authored and have a parent pointer; a primary that got
\* siblings from its llmResponses keeps them.
C13_LegacySiblings ==
  SibDone =>
    \A i \in 1..Len(SibInput) :
      /\ OnLegacyPath(SibInput[i]) => SiblingsOf(s_result[i]) = SharingKey(SibInput[i])
      /\ KeepsModernSiblings(SibInput[i], s_result[i])

\* C13 (amended): on the legacy path the siblings attached to a message are
\* exactly the messages of other conversations that pass the user condition
\* of the sibling query (the user of the filter), share its legacy key, are
\* not user-authored and have a parent pointer; a primary that got siblings
\* from its llmResponses keeps them.
C13_LegacySiblingsOfUser ==
  SibDone =>
    \A i \in 1..Len(SibInput) :
      /\ OnLegacyPath(SibInput[i]) =>
           SiblingsOf(s_result[i]) = SharingKeyForUser(SibInput[i])
      /\ KeepsModernSiblings(SibInput[i], s_result[i])

\* A message with a legacy key received a reply of another conversation
\* while a user-authored message, a parentless one and one of another user,
\* all sharing the key, stayed out.
C13_Witness ==
  /\ SibDone
  /\ s_filter.user # <<>>
  /\ \E i \in 1..Len(SibInput) :
       /\ OnLegacyPath(SibInput[i])
       /\ Len(SiblingsOf(s_result[i])) = 1
       /\ \E j \in 1..Len(s_store) :
            /\ s_store[j].sharedUserMessageId = SibInput[i].sharedUserMessageId
            /\ s_store[j].conversationId # s_filter.conversationId
            /\ \/ s_store[j].isCreatedByUser
               \/ s_store[j].parentMessageId = NoKey
               \/ s_store[j].user # s_filter.user[1]


(***************************************************************************)
(* Properties of handleContextStrategy: errors, payload, token map,        *)
(* summary reuse                                                           *)
(***************************************************************************)
\* An error with its numbers blanked: what is left is its type and the
\* structure of its message.
WithoutNumbers(e) == [type |-> e.type, info |-> [k \in 1..Len(e.info) |-> "n"]]

\* assemble failed after fit returned: the latest turn did not fit.
LatestTurnTooLarge ==
  a_pc = "error" /\ f_pc = "done" /\ a_error[1].type = "INPUT_LENGTH"

\* C14: the INPUT_LENGTH error raised when the latest turn is too large
\* differs, in its type or in the structure of its message and not only in
\* its numbers, from every INPUT_LENGTH error raised for oversized
\* instructions.
C14_OversizedErrorsDistinguishable ==
  LatestTurnTooLarge =>
    \A count \in 1..(MaxInstr + PrimingTokens + MaxTok), max \in 0..MaxCtx :
      InstructionsTooLarge(<<InstructionsMsg(count)>>, max) =>
        WithoutNumbers(a_error[1]) # WithoutNumbers(InputLengthError(count, max))

\* The payload as it is after the instructions are re-attached and before
\* a summary message is put in front.
PayloadBeforeSummary == IF summaryMessage # <<>> THEN Tail(payload) ELSE payload

\* The formatted form of an element of the context: of the instructions,
\* the instructions without their tokenCount; of a thread message, its
\* entry of formattedMessages.
FormattedForm(m) ==
  IF m.messageId = "" THEN WithoutTokenCount(<<m>>)[1] ELSE Formatted(m)

AsmPayloadBuilt == a_pc \in {"summarizing", "map", "done"}

\* C15: once the payload is sliced and the instructions are re-attached,
\* and before a summary is prepended, the payload is as long as the fitted
\* context and payload[i] is the formatted form of context[i] at every
\* index, the instructions included, however many messages were truncated.
C15_PayloadAlignedWithContext ==
  AsmPayloadBuilt =>
    /\ Len(PayloadBeforeSummary) = Len(f_result.context)
    /\ \A i \in 1..Len(f_result.context) :
         PayloadBeforeSummary[i] = FormattedForm(f_result.context[i])

\* Instructions and three messages of which two were truncated: the payload
\* is the instructions and the newest message.
C15_Witness ==
  /\ AsmPayloadBuilt
  /\ AsmHasInstructions
  /\ Len(AsmThread) = 3
  /\ Len(f_result.messagesToRefine) = 2
  /\ Len(PayloadBeforeSummary) = 2
  /\ PayloadBeforeSummary[2] = Formatted(AsmThread[3])

\* assemble returned after the summarizer produced a summary message.
FreshSummary ==
  a_pc = "done" /\ summarizerLog # <<>> /\ Last(summarizerLog) = "summary"

\* C16: when a summary was freshly generated, the returned tokenCountMap has
\* a summaryMessage entry with the summary's token count and the id of the
\* newest message of messagesToRefine, with and without instructions.
C16_SummaryEntryOnNewestRefined ==
  FreshSummary =>
    /\ a_result.tokenCountMap.summaryMessage # <<>>
    /\ a_result.tokenCountMap.summaryMessage[1].tokenCount = summaryTokenCount
    /\ a_result.tokenCountMap.summaryMessage[1].messageId =
         Last(f_result.messagesToRefine).messageId

\* Summarization is on, one message was truncated and the first message of
\* the thread carries the summary recorded as the previous one.
ReuseCase ==
  /\ a_this.shouldSummarize
  /\ f_pc = "done"
  /\ Len(f_result.messagesToRefine) = 1
  /\ AsmThread # <<>>
  /\ AsmThread[1].summary # ""
  /\ a_this.previous_summary # <<>>
  /\ a_this.previous_summary[1].messageId = AsmThread[1].messageId

\* C17: in the reuse case the summarizer is not invoked, the payload starts
\* with a system message holding the stored summary and the stored
\* summaryTokenCount is deducted from the remaining budget; in every other
\* case with summarization on and a non-empty messagesToRefine the
\* summarizer is invoked exactly once.
C17_PreviousSummaryReused ==
  AsmFinished =>
    IF ReuseCase
    THEN /\ summarizerLog = <<>>
         /\ a_pc = "done"
         /\ payload # <<>>
         /\ payload[1] = [role |-> "system", content |-> AsmThread[1].summary]
         /\ a_remaining = f_result.remainingContextTokens - AsmThread[1].summaryTokenCount
    ELSE (a_this.shouldSummarize /\ f_pc = "done" /\ Len(f_result.messagesToRefine) > 0) =>
           Len(summarizerLog) = 1


(***************************************************************************)
(* Properties of getMessagesForConversation: summaries and the input       *)
(***************************************************************************)
\* The ids met from id towards the root, newest first: the walk ends at the
\* root, at an id no message has, at an id already met and, when
\* stopAtSummary is set, at the first message that carries a summary.
RECURSIVE WalkIds(_, _, _)
WalkIds(id, met, stopAtSummary) ==
  IF id = NoId \/ id \in met \/ id \notin RecIds THEN <<>>
  ELSE IF stopAtSummary /\ MessageOf(id).summary # "" THEN <<id>>
  ELSE <<id>> \o WalkIds(IF MessageOf(id).parentMessageId = NO_PARENT
                          THEN NoId ELSE MessageOf(id).parentMessageId,
                         met \cup {id}, stopAtSummary)

ExpectedIds == Reverse(WalkIds(r_args.parentMessageId, {}, r_args.summary))

\* C18: with stopAtSummary set the result starts at the message nearest to
\* the start that carries a summary, returned with role 'system', its
\* summary as text and its summaryTokenCount (when it has one) as token
\* count, and holds none of its ancestors; no message without a summary has
\* its role, text or token count changed; with stopAtSummary unset the
\* summaries are ignored and the walk goes on to the root.
C18_StopsAtNearestSummary ==
  RecDone =>
    /\ Len(r_result) = Len(ExpectedIds)
    /\ \A k \in 1..Len(ExpectedIds) :
         LET stored == MessageOf(ExpectedIds[k])
         IN /\ r_result[k].messageId = ExpectedIds[k]
            /\ IF r_args.summary /\ stored.summary # ""
               THEN /\ k = 1
                    /\ r_result[k].role = "system"
                    /\ r_result[k].text = stored.summary
                    /\ r_result[k].tokenCount =
                         IF stored.summaryTokenCount # 0 THEN stored.summaryTokenCount
                                                         ELSE stored.tokenCount
               ELSE r_result[k] = stored
    /\ \A i \in 1..Len(RecInput) :
         RecInput[i].summary = "" =>
           /\ r_messages[i].role = RecInput[i].role
           /\ r_messages[i].text = RecInput[i].text
           /\ r_messages[i].tokenCount = RecInput[i].tokenCount

\* C19 (as stated): after a call, with or without stopAtSummary, the input
\* collection has the same order and every record has the role, text and
\* tokenCount it had before the call.
C19_InputUnchanged ==
  RecDone => r_messages = RecInput

\* C19 (amended): a call never adds, removes or reorders the records of the
\* input collection; with stopAtSummary unset every record is left as it
\* was; with stopAtSummary set the only records changed are returned ones
\* that carry a summary or a summaryTokenCount, and the only fields changed
\* are role and text (to 'system' and the summary) and tokenCount (to the
\* summaryTokenCount).
C19_OnlyReturnedSummariesRewritten ==
  RecDone =>
    /\ Len(r_messages) = Len(RecInput)
    /\ \A i \in 1..Len(RecInput) :
         LET before == RecInput[i]
             after == r_messages[i]
             returned == \E k \in 1..Len(r_result) : r_result[k].messageId = before.messageId
             rewritten == r_args.summary /\ returned
         IN /\ after.messageId = before.messageId
            /\ after.parentMessageId = before.parentMessageId
            /\ after.createdAt = before.createdAt
            /\ after.summary = before.summary
            /\ after.summaryTokenCount = before.summaryTokenCount
            /\ after.role = IF rewritten /\ before.summary # "" THEN "system" ELSE before.role
            /\ after.text = IF rewritten /\ before.summary # "" THEN before.summary
                                                                ELSE before.text
            /\ after.tokenCount = IF rewritten /\ before.summaryTokenCount # 0
                                  THEN before.summaryTokenCount ELSE before.tokenCount

\* A call with stopAtSummary set returned two messages of a collection of
\* three: the one that carries the summary was rewritten in the collection,
\* the others were not.
C19_Witness ==
  /\ RecDone
  /\ r_args.summary
  /\ Len(RecInput) = 3
  /\ Len(r_result) = 2
  /\ r_result[1].role = "system"
  /\ \E i \in 1..3 :
       /\ r_messages[i] # RecInput[i]
       /\ \A j \in (1..3) \ {i} : r_messages[j] = RecInput[j]


(***************************************************************************)
(* Properties of getMessagesWithinTokenLimit: the caller's array           *)
(***************************************************************************)
\* C20: no step of fit changes the thread array it was given: its length,
\* elements and order stay what they were, for every budget, with and
\* without instructions.
C20_ThreadArrayUntouched ==
  [][f_args'.messages = f_args.messages]_vars

\* With instructions, of three messages one was popped into the context and
\* the first was shifted off the working array; the caller's array still
\* has three.
C20_Witness ==
  /\ FitDone
  /\ HasInstructions
  /\ Len(f_args.messages) = 3
  /\ Len(messages) = 1
  /\ Len(f_result.context) = 2
  /\ f_result.messagesToRefine = <<f_args.messages[2]>>


(***************************************************************************)
(* Properties of getMessagesForConversation: dangling parents and the      *)
(* shape of the result                                                     *)
(***************************************************************************)
ResultIds == [k \in 1..Len(r_result) |-> r_result[k].messageId]

\* The ids met from the start of the call towards the root, newest first.
WalkFromStart == WalkIds(r_args.parentMessageId, {}, r_args.summary)

\* The walk from the start ends at a message whose parentId is neither the
\* root sentinel nor the id of a message of the collection.
EndsAtDanglingParent ==
  /\ WalkFromStart # <<>>
  /\ LET oldest == MessageOf(Last(WalkFromStart))
     IN /\ oldest.parentMessageId \notin RecIds \cup {NO_PARENT, NoId}
        /\ ~(r_args.summary /\ oldest.summary # "")

\* C21: when the walk reaches a message whose parentId is not the root
\* sentinel and names no message of the collection, reconstruct returns
\* (it has no error exit) exactly the messages from that message up to the
\* start, oldest first; when the start id is absent or names no message, or
\* the collection is empty, the result is empty.
C21_DanglingParentStopsSilently ==
  RecDone =>
    /\ EndsAtDanglingParent =>
         /\ ResultIds = Reverse(WalkFromStart)
         /\ MessageOf(ResultIds[1]).parentMessageId \notin RecIds \cup {NO_PARENT}
         /\ Last(ResultIds) = r_args.parentMessageId
         /\ \A k \in 1..Len(r_result) :
              r_result[k] = r_messages[FindMessage(RecInput, ResultIds[k])]
    /\ (r_args.parentMessageId = NoId
          \/ r_args.parentMessageId \notin RecIds
          \/ RecInput = <<>>) => r_result = <<>>

\* Three messages, the oldest pointing at an id no message has: all three
\* are returned.
C21_Witness ==
  /\ RecDone
  /\ Len(RecInput) = 3
  /\ RecInput[1].parentMessageId = MissingId
  /\ ResultIds = <<IdOf(1), IdOf(2), IdOf(3)>>

\* C27: in every result no message id occurs twice, each element other
\* than the last is the message that the parentId of the next element
\* names, and a non-empty result ends at the start id: one contiguous
\* parent chain, whatever the graph (cyclic, dangling, duplicate records).
C27_ContiguousChain ==
  RecDone =>
    /\ \A j, k \in 1..Len(r_result) : j # k => r_result[j].messageId # r_result[k].messageId
    /\ \A k \in 1..(Len(r_result) - 1) :
         /\ r_result[k + 1].parentMessageId = r_result[k].messageId
         /\ r_result[k] = r_messages[FindMessage(RecInput, r_result[k + 1].parentMessageId)]
    /\ r_result # <<>> => Last(r_result).messageId = r_args.parentMessageId

\* A collection with a duplicate record and a cycle: the walk went round
\* once and returned each id once.
C27_Witness ==
  /\ RecDone
  /\ Len(RecInput) = 3
  /\ RecInput[3].messageId = RecInput[1].messageId
  /\ HasCycle
  /\ Len(r_result) = 2


(***************************************************************************)
(* Properties of getMessagesWithinTokenLimit: conservation of messages     *)
(***************************************************************************)
\* C25: fit loses and duplicates no message.  Without instructions
\* messagesToRefine followed by context is the input thread; with
\* instructions and a non-empty thread, the thread's first element followed
\* by messagesToRefine followed by the rest of context is the input thread.
C25_NoMessageLostOrDuplicated ==
  FitDone =>
    IF ~HasInstructions
    THEN f_result.messagesToRefine \o f_result.context = FitThread
    ELSE FitThread # <<>> =>
           /\ f_result.context # <<>>
           /\ f_result.context[1] = FitThread[1]
           /\ <<FitThread[1]>> \o f_result.messagesToRefine \o Tail(f_result.context)
                = FitThread

\* With instructions, the newest of three messages was fitted, the middle
\* one is left to refine and the anchored first one does not fit what is
\* left of the budget.
C25_Witness ==
  /\ FitDone
  /\ HasInstructions
  /\ Len(FitThread) = 3
  /\ f_result.context = <<FitThread[1], FitThread[3]>>
  /\ f_result.messagesToRefine = <<FitThread[2]>>
  /\ FitThread[1].tokenCount > f_result.remainingContextTokens

(***************************************************************************)
(* Properties of handleContextStrategy: the token account and the payload  *)
(* of the instructions alone                                               *)
(***************************************************************************)
\* C24: on every successful return promptTokens is a number, equals
\* maxContextTokens minus the remaining budget, and equals the instructions
\* token count plus the 3-token reserve plus the token counts of the
\* messages fitted by the pop loop plus the token count of the summary that
\* was reused or generated, if any; also when the summarizer returned no
\* summary.
C24_PromptTokensAccounted ==
  a_pc = "done" =>
    /\ a_result.promptTokens \notin {NaN, UndefinedNumber}
    /\ a_remaining \notin {NaN, UndefinedNumber}
    /\ a_result.promptTokens = AsmMax - a_remaining
    /\ a_result.promptTokens =
         AsmInstructionsTokens + PrimingTokens + SumTokens(LoopSelected)
           + (IF summaryMessage # <<>> THEN summaryTokenCount ELSE 0)

\* C26: when instructions are given and the context that fit returned holds
\* them alone (the payload after re-attaching the instructions is the
\* instructions alone), assemble throws INPUT_LENGTH with the instructions
\* token count plus 3 against maxContextTokens, with summarization on or
\* off, and the summarizer is never invoked.
C26_InstructionsAloneThrow ==
  (AsmHasInstructions /\ AsmFitReturned /\ a_pc # "fit" /\ Len(f_result.context) = 1) =>
    /\ a_pc = "error"
    /\ a_error = <<InputLengthError(AsmInstructionsTokens + PrimingTokens, AsmMax)>>
    /\ summarizerLog = <<>>
    /\ a_result = NoAsmResult

\* Summarization is on, two thread messages were left to refine and the
\* error was thrown without a call of the summarizer.
C26_Witness ==
  /\ a_pc = "error"
  /\ AsmHasInstructions
  /\ a_this.shouldSummarize
  /\ Len(AsmThread) = 2
  /\ f_result.context = a_args.instructions
  /\ Len(f_result.messagesToRefine) = 2
  /\ a_error = <<InputLengthError(AsmInstructionsTokens + PrimingTokens, AsmMax)>>
  /\ summarizerLog = <<>>


(***************************************************************************)
(* Properties of MultiMessage.messageGroups: the simple path and orphans   *)
(***************************************************************************)
\* The assistant message sortedMessages[j] is reached unclaimed: no user
\* message sorted before it has the id its parentMessageId names.
ReachedUnclaimed(j) ==
  /\ ~sortedMessages[j].isCreatedByUser
  /\ \A u \in 1..(j - 1) :
       ~(sortedMessages[u].isCreatedByUser
           /\ sortedMessages[u].messageId = sortedMessages[j].parentMessageId)

\* The positions of the turns equal to g.
TurnsEqual(g) == { k \in 1..Len(groups) : groups[k] = g }

\* C22: a user-authored message with exactly one unclaimed assistant child
\* is emitted as a standalone turn immediately followed by the child as a
\* standalone turn of its own; with no such child it is emitted standalone,
\* once; in neither case is it the userMessage of a turn; an assistant
\* message reached unclaimed is emitted standalone, once, by a computation
\* that has no error exit.
C22_SimplePathAndOrphans ==
  GrpDone =>
    /\ \A u \in 1..Len(sortedMessages) :
         LET user == sortedMessages[u]
             responses == UnclaimedResponses(u)
         IN (user.isCreatedByUser /\ Len(responses) <= 1) =>
              /\ Cardinality(TurnsEqual(Standalone(user))) = 1
              /\ \A k \in 1..Len(groups) : groups[k].userMessage # <<user>>
              /\ \A k \in TurnsEqual(Standalone(user)) :
                   Len(responses) = 1 =>
                     /\ k + 1 <= Len(groups)
                     /\ groups[k + 1] = Standalone(responses[1])
                     /\ TurnsEqual(Standalone(responses[1])) = {k + 1}
    /\ \A j \in 1..Len(sortedMessages) :
         ReachedUnclaimed(j) =>
           Cardinality(TurnsEqual(Standalone(sortedMessages[j]))) = 1

\* A user message with one child behind it and an assistant message that
\* answers nothing: three standalone turns, the child right behind the
\* user message.
C22_Witness ==
  /\ GrpDone
  /\ Len(messagesTree) = 3
  /\ messagesTree[1].isCreatedByUser
  /\ ~messagesTree[2].isCreatedByUser
  /\ messagesTree[2].parentMessageId = IdOf(1)
  /\ ~messagesTree[3].isCreatedByUser
  /\ messagesTree[3].parentMessageId = NO_PARENT
  /\ groups = <<Standalone(messagesTree[1]), Standalone(messagesTree[2]),
                Standalone(messagesTree[3])>>


(***************************************************************************)
(* Properties of addInstructions                                           *)
(***************************************************************************)
AddDone == ai_pc = "done"

\* The instructions argument is an object with at least one key.
InstructionsGiven ==
  ai_args.instructions # <<>> /\ ai_args.instructions[1] # EmptyObject

\* s without its k-th element.
Without(s, k) == SubSeq(s, 1, k - 1) \o SubSeq(s, k + 1, Len(s))

\* C23: with non-empty instructions the result has one element more than
\* the input and holds the input messages in their order: the instructions
\* are the first element in the default mode, and in the beforeLast mode
\* they are immediately before the final input message, which stays last
\* (they are the only element for an empty input); with absent or empty
\* instructions the result is the input; the input array is what it was.
C23_InstructionsPlaced ==
  AddDone =>
    LET msgs == ai_args.messages
        at == IF ai_args.beforeLast /\ msgs # <<>> THEN Len(msgs) ELSE 1
    IN /\ ai_messages = msgs
       /\ IF InstructionsGiven
          THEN /\ Len(ai_result) = Len(msgs) + 1
               /\ ai_result[at] = ai_args.instructions[1]
               /\ Without(ai_result, at) = msgs
               /\ (ai_args.beforeLast /\ msgs # <<>>) =>
                    /\ Last(ai_result) = Last(msgs)
                    /\ ai_result[Len(ai_result) - 1] = ai_args.instructions[1]
               /\ ~ai_args.beforeLast => ai_result[1] = ai_args.instructions[1]
          ELSE ai_result = msgs

\* Three messages in the beforeLast mode: the instructions are third of
\* four.
C23_Witness ==
  /\ AddDone
  /\ InstructionsGiven
  /\ ai_args.beforeLast
  /\ Len(ai_args.messages) = 3
  /\ ai_result = <<ai_args.messages[1], ai_args.messages[2], ai_args.instructions[1],
                   ai_args.messages[3]>>


(***************************************************************************)
(* Properties of handleTokenCountMap                                       *)
(***************************************************************************)
\* The updates issued for the message with this id.
UpdatesOf(messageId) ==
  { k \in 1..Len(updateLog) : updateLog[k].messageId = messageId }

\* C30: no store update is ever issued for the last message of
\* currentMessages; an earlier message that has a non-zero tokenCount gets
\* no update and keeps its tokenCount unless the map's summaryMessage entry
\* targets it; a message without a token count is updated only when the
\* map holds a non-zero count for its id.
C30_BackfillOnlyWhereMissing ==
  /\ Len(currentMessages) = Len(h_before)
  /\ h_before # <<>> =>
       /\ UpdatesOf(Last(h_before).messageId) = {}
       /\ Last(currentMessages) = Last(h_before)
  /\ \A i \in 1..(Len(h_before) - 1) :
       LET before == h_before[i]
       IN /\ (Truthy(before.tokenCount)
                /\ ~TargetedBySummary(before.messageId, tokenCountMap)) =>
               /\ UpdatesOf(before.messageId) = {}
               /\ currentMessages[i] = before
          /\ (~Truthy(before.tokenCount) /\ UpdatesOf(before.messageId) # {}) =>
               Truthy(CountFor(tokenCountMap, before.messageId))

\* Three messages: the first had a token count and was skipped, the second
\* had none and was updated with the count of the map, the last one was
\* left alone although the map has a count for it.
C30_Witness ==
  /\ h_pc = "done"
  /\ Len(h_before) = 3
  /\ Truthy(h_before[1].tokenCount)
  /\ ~Truthy(h_before[2].tokenCount)
  /\ ~Truthy(h_before[3].tokenCount)
  /\ Truthy(CountFor(tokenCountMap, IdOf(1)))
  /\ Truthy(CountFor(tokenCountMap, IdOf(3)))
  /\ tokenCountMap.summaryMessage = <<>>
  /\ Len(updateLog) = 1
  /\ updateLog[1].messageId = IdOf(2)
  /\ currentMessages[2].tokenCount = MaxTok


(***************************************************************************)
(* Properties of sendMessage                                               *)
(***************************************************************************)
\* The index suffix of the override id of request r (<<>> when it has none).
IndexOf(r) ==
  ElementAt(Split(clients[r].body.overrideUserMessageId, COMMON_DIVIDER), 2)

\* The saves of a user message that client r has started.
UserSaves(r) == { call \in saveCalls : call.client = r /\ call.isCreatedByUser }

\* The save of the response message that client r has started, if any.
ResponseSaves(r) == { call \in saveCalls : call.client = r /\ ~call.isCreatedByUser }

\* C28: of the requests that carry the same base overrideUserMessageId with
\* different index suffixes, every request with an index other than '0'
\* has skipSaveUserMessage set once processOverideIds has run and never
\* calls saveMessageToDatabase for the user message; the shared user
\* message is saved by the request with index '0' alone, once, as soon as
\* that request (when it is not an edit) has passed the save.
C28_OnlyIndexZeroSavesUserMessage ==
  /\ \A r \in DOMAIN clients :
       IndexOf(r) \notin {<<>>, <<"0">>} =>
         /\ clients[r].pc # "start" => clients[r].skipSaveUserMessage
         /\ UserSaves(r) = {}
  /\ \A call \in saveCalls :
       (call.isCreatedByUser /\ call.sharedUserMessageId # <<>>) =>
         /\ IndexOf(call.client) = <<"0">>
         /\ call.messageId = call.sharedUserMessageId
  /\ \A r \in DOMAIN clients :
       (IndexOf(r) = <<"0">> /\ ~clients[r].isEdited
          /\ clients[r].pc \notin {"start", "history", "building"}) =>
         UserSaves(r) = {SaveCall(r, BaseUserMessageId, TRUE)}

\* Two requests with the indexes '1' and '0', both finished: both saved
\* their response, the second alone saved the user message.
C28_Witness ==
  /\ Len(clients) = 2
  /\ IndexOf(1) = <<"1">>
  /\ IndexOf(2) = <<"0">>
  /\ clients[1].pc = "done"
  /\ clients[2].pc = "done"
  /\ UserSaves(1) = {}
  /\ UserSaves(2) # {}
  /\ ResponseSaves(1) # {}
  /\ ResponseSaves(2) # {}

\* C29: a step that starts the save of the response message of a request is
\* taken only when sendCompletion has returned for it and the save of its
\* user message, if one was started, has completed; after every step the
\* ids in savedMessageIds are ids of messages whose save was started.
C29_ResponseSavedLast ==
  [][\A r \in DOMAIN clients :
       /\ (ResponseSaves(r) = {} /\ ResponseSaves(r)' # {}) =>
            /\ clients'[r].completion = "returned"
            /\ UserSaves(r) # {} => clients[r].userMessagePromise = "fulfilled"
            /\ UserSaves(r) = {} => clients[r].userMessagePromise = "undefined"
       /\ clients'[r].savedMessageIds \subseteq
            { call.messageId : call \in UserSaves(r)' \cup ResponseSaves(r)' }]_vars

\* A request saved its user message, the save completed while the
\* completion ran, and the response was saved after both.
C29_Witness ==
  \E r \in DOMAIN clients :
    /\ clients[r].pc = "done"
    /\ clients[r].completion = "returned"
    /\ clients[r].userMessagePromise = "fulfilled"
    /\ UserSaves(r) # {}
    /\ ResponseSaves(r) # {}
    /\ Cardinality(clients[r].savedMessageIds) = 2

=============================================================================
